---- MODULE Spec2Model ----
(***************************************************************************)
(* Model of the DB -> Elasticsearch sync workflow of db_sync_graph         *)
(* (graph.ts, state.ts), of the pure functions the workflow is built from, *)
(* and of the worker pool of the cost estimator (estimate.ts and its       *)
(* worker).                                                                *)
(*                                                                         *)
(* Strings are atomic values.  A nullable string (string | null) uses the *)
(* value NULL; a nullable record uses NullRecord.  Hashes are modelled as  *)
(* injective: the hash of a value is the value itself.                     *)
(***************************************************************************)
EXTENDS Integers, Sequences, FiniteSets, TLC

VARIABLES
    \* position of the LangGraph run and the channels of DbSyncStateAnnotation
    pc, runId, fatalError, status, tableInfos, tableSnapshots, tablePlans,
    tableResults, catalogByTable, summary,
    \* what is outside the run: the source database, the control catalog
    \* index, the document of the run in the control runs index, the target
    \* indices, the environment
    source, catalogStore, runStore, index, envOk,
    \* the external calls made by the current run, in order, and the
    \* control catalog as it was stored when the run began, and the nodes
    \* of the graph the run has entered
    io, catalogBefore, stages,
    \* a direct call of one exported function: its name, arguments, result
    fn, args, ret,
    \* processTablesInParallel (estimate.ts): its options, the closure
    \* variables of the promise executor, the promise itself
    opts, queue, chunkCounts, estimates, aggregators, aliveWorkers, workerErrors,
    promise,
    \* per worker: its thread, the batch kept on the Worker object, the
    \* requests posted to it and not yet handled, the messages and events it
    \* has emitted and the main thread has not yet handled
    worker, batch, toWorker, toMain,
    \* the calls of the callbacks onTableComplete and onTableError, and every
    \* request posted to each worker, in order; the chunkIds of the
    \* chunk-result messages received
    completed, errored, sent, chunkResults

stateVars == <<pc, runId, fatalError, status, tableInfos, tableSnapshots,
               tablePlans, tableResults, catalogByTable, summary>>
worldVarsButStages == <<source, catalogStore, runStore, index, envOk, io,
                        catalogBefore>>
worldVars == <<worldVarsButStages, stages>>
poolVars == <<opts, queue, chunkCounts, estimates, aggregators, aliveWorkers,
              workerErrors, promise, worker, batch, toWorker, toMain,
              completed, errored, sent, chunkResults>>
runVars == <<stateVars, worldVars, poolVars>>
callVars == <<fn, args, ret>>
vars == <<runVars, callVars, poolVars>>

----------------------------------------------------------------------------
(* Values *)

NULL == "null"
NullRecord == [isNull |-> TRUE]
Undefined == [isUndefined |-> TRUE]

\* JavaScript truthiness of a string | null value: `if (x)`, `x || y`.
Truthy(s) == s # NULL /\ s # ""

\* `a ?? b` on a record | null | undefined value
Coalesce(a, b) == IF a = NullRecord \/ a = Undefined THEN b ELSE a

\* The sum of a sequence of numbers
RECURSIVE SeqSum(_)
SeqSum(s) == IF s = <<>> THEN 0 ELSE Head(s) + SeqSum(Tail(s))

\* All sequences over S of length at most n
SeqsUpTo(S, n) == UNION {[1..k -> S] : k \in 0..n}

----------------------------------------------------------------------------
(* state.ts *)

\* `${schema}.${table}`: one run discovers the tables of one schema, so the
\* key is distinct for distinct tables; the pair keeps both parts.
tableKey(schema, table) == <<schema, table>>

defaultRunSummary ==
    [tablesTotal |-> 0, tablesReindexed |-> 0, tablesSkipped |-> 0,
     rowsUpserted |-> 0, errors |-> <<>>]

----------------------------------------------------------------------------
(* graph.ts: the planner *)

\* getTableModeReason with the two hash comparisons in the other order
getTableModeReason_TableHashFirst(previousCatalog, schemaHash, tableHash) ==
    IF previousCatalog = NullRecord \/ previousCatalog = Undefined
    THEN [mode |-> "full", reason |-> "no_previous_catalog"]
    ELSE IF previousCatalog.table_hash # tableHash
    THEN [mode |-> "full", reason |-> "table_hash_changed"]
    ELSE IF previousCatalog.schema_hash # schemaHash
    THEN [mode |-> "full", reason |-> "schema_hash_changed"]
    ELSE [mode |-> "skip", reason |-> "table_hash_unchanged"]

getTableModeReason(previousCatalog, schemaHash, tableHash) ==
    IF previousCatalog = NullRecord \/ previousCatalog = Undefined
    THEN [mode |-> "full", reason |-> "no_previous_catalog"]
    ELSE IF previousCatalog.schema_hash # schemaHash
    THEN [mode |-> "full", reason |-> "schema_hash_changed"]
    ELSE IF previousCatalog.table_hash # tableHash
    THEN [mode |-> "full", reason |-> "table_hash_changed"]
    ELSE [mode |-> "skip", reason |-> "table_hash_unchanged"]

decideTableMode(params) ==
    IF ~params.hasPrimaryKey
    THEN [mode |-> "skip", reason |-> "skipped_no_pk"]
    ELSE getTableModeReason(params.previousCatalog, params.schemaHash,
                            params.tableHash)

\* new Map(tableSnapshots.map(s => [key, s])).get(key): the last snapshot
\* with that key, or undefined
snapshotByTable(snapshots, key) ==
    LET hits == {i \in 1..Len(snapshots) :
                    tableKey(snapshots[i].schema, snapshots[i].table) = key}
    IN IF hits = {} THEN Undefined
       ELSE snapshots[CHOOSE i \in hits : \A j \in hits : j <= i]

\* catalogByTable[key]: undefined for a key the object does not hold
catalogEntry(catalog, key) ==
    IF key \in DOMAIN catalog THEN catalog[key] ELSE Undefined

\* buildTablePlans deciding on the primary key before it looks for the snapshot
buildTablePlan_PkBeforeSnapshot(tableInfo, snapshots, catalog) ==
    LET key == tableKey(tableInfo.schema, tableInfo.table)
        snapshot == snapshotByTable(snapshots, key)
    IN IF Len(tableInfo.pkColumns) = 0
       THEN [schema |-> tableInfo.schema, table |-> tableInfo.table,
             mode |-> "skip", reason |-> "skipped_no_pk"]
       ELSE IF snapshot = Undefined
       THEN [schema |-> tableInfo.schema, table |-> tableInfo.table,
             mode |-> "skip", reason |-> "snapshot_missing"]
       ELSE LET decision == decideTableMode(
                    [previousCatalog |-> Coalesce(catalogEntry(catalog, key), NullRecord),
                     schemaHash |-> snapshot.schemaHash,
                     tableHash |-> snapshot.tableHash,
                     hasPrimaryKey |-> TRUE])
            IN [schema |-> tableInfo.schema, table |-> tableInfo.table,
                mode |-> decision.mode, reason |-> decision.reason]

buildTablePlan(tableInfo, snapshots, catalog) ==
    LET key == tableKey(tableInfo.schema, tableInfo.table)
        snapshot == snapshotByTable(snapshots, key)
    IN IF snapshot = Undefined
       THEN [schema |-> tableInfo.schema, table |-> tableInfo.table,
             mode |-> "skip", reason |-> "snapshot_missing"]
       ELSE LET decision == decideTableMode(
                    [previousCatalog |-> Coalesce(catalogEntry(catalog, key), NullRecord),
                     schemaHash |-> snapshot.schemaHash,
                     tableHash |-> snapshot.tableHash,
                     hasPrimaryKey |-> Len(tableInfo.pkColumns) > 0])
            IN [schema |-> tableInfo.schema, table |-> tableInfo.table,
                mode |-> decision.mode, reason |-> decision.reason]

buildTablePlans(infos, snapshots, catalog) ==
    [i \in 1..Len(infos) |-> buildTablePlan(infos[i], snapshots, catalog)]

----------------------------------------------------------------------------
(* graph.ts: run status, summary, per-table execution *)

\* computeRunStatus looking at the table results before the fatal error
computeRunStatus_TablesFirst(fatal, results) ==
    IF \E i \in 1..Len(results) : results[i].status = "failed"
    THEN "partial_success"
    ELSE IF Truthy(fatal) THEN "failed"
    ELSE "success"

computeRunStatus(fatal, results) ==
    IF Truthy(fatal) THEN "failed"
    ELSE IF \E i \in 1..Len(results) : results[i].status = "failed"
    THEN "partial_success"
    ELSE "success"

IsReindexed(result) == result.status = "reindexed"
IsSkipped(result) == result.status = "skipped"
IsFailed(result) == result.status = "failed"
RowsOfReindexed(result) == IF IsReindexed(result) THEN result.rowsUpserted ELSE 0

\* summary.errors.push({tableKey, message: result.error || "unknown_table_error"})
runErrorOf(result) ==
    [tableKey |-> tableKey(result.schema, result.table),
     message |-> IF Truthy(result.error) THEN result.error
                 ELSE "unknown_table_error"]

\* summarizeRun adding up the rows of every result
summarizeRun_AllRows(plans, results) ==
    LET failed == SelectSeq(results, IsFailed)
        rowsOf(result) == result.rowsUpserted
    IN [tablesTotal |-> Len(plans),
        tablesReindexed |-> Len(SelectSeq(results, IsReindexed)),
        tablesSkipped |-> Len(SelectSeq(results, IsSkipped)),
        rowsUpserted |-> SeqSum([i \in 1..Len(results) |-> rowsOf(results[i])]),
        errors |-> [i \in 1..Len(failed) |-> runErrorOf(failed[i])]]

summarizeRun(plans, results) ==
    LET failed == SelectSeq(results, IsFailed)
    IN [tablesTotal |-> Len(plans),
        tablesReindexed |-> Len(SelectSeq(results, IsReindexed)),
        tablesSkipped |-> Len(SelectSeq(results, IsSkipped)),
        rowsUpserted |-> SeqSum([i \in 1..Len(results) |-> RowsOfReindexed(results[i])]),
        errors |-> [i \in 1..Len(failed) |-> runErrorOf(failed[i])]]

\* executePlansWithHandler calling the handler for a skip plan too
executeOnePlan_SkipCallsHandler(tablePlan, outcome, i) ==
    IF tablePlan.mode = "skip"
    THEN [result |-> [schema |-> tablePlan.schema, table |-> tablePlan.table,
                      mode |-> tablePlan.mode, status |-> "skipped",
                      rowsUpserted |-> 0, error |-> NULL],
          calls |-> <<i>>, ops |-> outcome.ops]
    ELSE IF ~outcome.throws
    THEN [result |-> [schema |-> tablePlan.schema, table |-> tablePlan.table,
                      mode |-> tablePlan.mode, status |-> "reindexed",
                      rowsUpserted |-> outcome.rows, error |-> NULL],
          calls |-> <<i>>, ops |-> outcome.ops]
    ELSE [result |-> [schema |-> tablePlan.schema, table |-> tablePlan.table,
                      mode |-> tablePlan.mode, status |-> "failed",
                      rowsUpserted |-> 0, error |-> outcome.message],
          calls |-> <<i>>, ops |-> outcome.ops]

\* One iteration of the loop of executePlansWithHandler.  `outcome` is what
\* onFullTable does for this plan when it is called: it throws an error with
\* `message`, or returns `rows`; `ops` are the external calls it makes.
\* `calls` lists the plans onFullTable was called for.
executeOnePlan(tablePlan, outcome, i) ==
    IF tablePlan.mode = "skip"
    THEN [result |-> [schema |-> tablePlan.schema, table |-> tablePlan.table,
                      mode |-> tablePlan.mode, status |-> "skipped",
                      rowsUpserted |-> 0, error |-> NULL],
          calls |-> <<>>, ops |-> <<>>]
    ELSE IF ~outcome.throws
    THEN [result |-> [schema |-> tablePlan.schema, table |-> tablePlan.table,
                      mode |-> tablePlan.mode, status |-> "reindexed",
                      rowsUpserted |-> outcome.rows, error |-> NULL],
          calls |-> <<i>>, ops |-> outcome.ops]
    ELSE [result |-> [schema |-> tablePlan.schema, table |-> tablePlan.table,
                      mode |-> tablePlan.mode, status |-> "failed",
                      rowsUpserted |-> 0, error |-> outcome.message],
          calls |-> <<i>>, ops |-> outcome.ops]

RECURSIVE executePlansFrom(_, _, _)

\* The loop without the try/catch around the handler: the first exception
\* ends it
executePlansFrom_NoCatch(plans, handler, i) ==
    IF i > Len(plans)
    THEN [results |-> <<>>, calls |-> <<>>, ops |-> <<>>]
    ELSE LET one == executeOnePlan(plans[i], handler[i], i)
             rest == IF one.result.status = "failed"
                     THEN [results |-> <<>>, calls |-> <<>>, ops |-> <<>>]
                     ELSE executePlansFrom(plans, handler, i + 1)
         IN [results |-> <<one.result>> \o rest.results,
             calls |-> one.calls \o rest.calls,
             ops |-> one.ops \o rest.ops]

\* The handlers are started from the last plan to the first, the results
\* are kept in plan order
executePlansFrom_LastPlanFirst(plans, handler, i) ==
    IF i > Len(plans)
    THEN [results |-> <<>>, calls |-> <<>>, ops |-> <<>>]
    ELSE LET one == executeOnePlan(plans[i], handler[i], i)
             rest == executePlansFrom(plans, handler, i + 1)
         IN [results |-> <<one.result>> \o rest.results,
             calls |-> rest.calls \o one.calls,
             ops |-> rest.ops \o one.ops]

\* for (const tablePlan of params.tablePlans) { ... } from plan i on
executePlansFrom(plans, handler, i) ==
    IF i > Len(plans)
    THEN [results |-> <<>>, calls |-> <<>>, ops |-> <<>>]
    ELSE LET one == executeOnePlan(plans[i], handler[i], i)
             rest == executePlansFrom(plans, handler, i + 1)
         IN [results |-> <<one.result>> \o rest.results,
             calls |-> one.calls \o rest.calls,
             ops |-> one.ops \o rest.ops]

executePlansWithHandler(plans, handler) == executePlansFrom(plans, handler, 1)

----------------------------------------------------------------------------
(* hashing.ts: canonical strings and digests *)

\* A text is a sequence of non-empty pieces of characters; the empty
\* sequence is the empty string
NoText == <<>>

\* The values of JavaScript a row of pg can hold
JsNull == [t |-> "null"]
JsUndefined == [t |-> "undefined"]
JsString(text) == [t |-> "string", s |-> text]
JsNumber(n) == [t |-> "number", n |-> n]
JsBoolean(b) == [t |-> "boolean", b |-> b]
JsBigInt(n) == [t |-> "bigint", n |-> n]
JsDate(iso) == [t |-> "date", iso |-> iso]
JsArray(items) == [t |-> "array", items |-> items]
\* An object is the sequence of its entries in insertion order
JsObject(entries) == [t |-> "object", entries |-> entries]

\* String(n) of a natural number
Digits == <<"0", "1", "2", "3", "4", "5", "6", "7", "8", "9">>
RECURSIVE NumberText(_)
NumberText(n) ==
    IF n < 10 THEN <<Digits[n + 1]>>
    ELSE NumberText(n \div 10) \o <<Digits[(n % 10) + 1]>>

\* The property names of the model in the order of Array.prototype.sort
KeyOrder ==
    <<"column_default", "column_name", "data_type", "id", "is_nullable", "meta",
      "name", "pk_position", "secret">>
KeyRank(key) == CHOOSE i \in 1..Len(KeyOrder) : KeyOrder[i] = key

\* Object.keys(objectValue) without the sort
SortEntries_KeepsOrder(entries) == entries

\* Object.keys(objectValue).sort() applied to the entries
RECURSIVE SortEntries(_)
SortEntries(entries) ==
    IF entries = <<>> THEN <<>>
    ELSE LET m == CHOOSE i \in 1..Len(entries) :
                     \A j \in 1..Len(entries) :
                         KeyRank(entries[i].key) <= KeyRank(entries[j].key)
             others == [j \in 1..(Len(entries) - 1) |->
                           IF j < m THEN entries[j] ELSE entries[j + 1]]
         IN <<entries[m]>> \o SortEntries(others)

\* sortJsonValue
RECURSIVE sortJsonValue(_)
sortJsonValue(value) ==
    CASE value.t \in {"null", "undefined"} -> JsNull
      [] value.t = "date" -> JsString(value.iso)
      [] value.t = "array" ->
            JsArray([i \in 1..Len(value.items) |-> sortJsonValue(value.items[i])])
      [] value.t = "object" ->
            JsObject(SortEntries(
                [i \in 1..Len(value.entries) |->
                    [key |-> value.entries[i].key,
                     value |-> sortJsonValue(value.entries[i].value)]]))
      [] value.t = "bigint" -> JsString(NumberText(value.n))
      [] OTHER -> value

\* JSON.stringify of a value sortJsonValue returns
RECURSIVE JSONstringify(_)
RECURSIVE JSONitems(_)
RECURSIVE JSONentries(_)
JSONstringify(json) ==
    CASE json.t = "null" -> <<"null">>
      [] json.t = "string" -> <<"\"">> \o json.s \o <<"\"">>
      [] json.t = "number" -> NumberText(json.n)
      [] json.t = "boolean" -> IF json.b THEN <<"true">> ELSE <<"false">>
      [] json.t = "array" -> <<"[">> \o JSONitems(json.items) \o <<"]">>
      [] json.t = "object" -> <<"{">> \o JSONentries(json.entries) \o <<"}">>
JSONitems(items) ==
    IF items = <<>> THEN <<>>
    ELSE JSONstringify(Head(items))
            \o (IF Tail(items) = <<>> THEN <<>> ELSE <<",">>)
            \o JSONitems(Tail(items))
JSONentries(entries) ==
    IF entries = <<>> THEN <<>>
    ELSE <<"\"", Head(entries).key, "\"", ":">>
            \o JSONstringify(Head(entries).value)
            \o (IF Tail(entries) = <<>> THEN <<>> ELSE <<",">>)
            \o JSONentries(Tail(entries))

\* stableStringify
stableStringify(value) == JSONstringify(sortJsonValue(value))

\* The string a text is: its pieces one after the other
RECURSIVE Flat(_)
Flat(text) == IF text = <<>> THEN "" ELSE Head(text) \o Flat(Tail(text))

\* sha256Hex: the digest is injective on strings
sha256Hex(input) == <<"sha256", Flat(input)>>

\* computeRowHash
computeRowHash(row) == sha256Hex(stableStringify(JsObject(row)))

\* columns.slice().sort((left, right) => left.ordinalPosition -
\* right.ordinalPosition): the sort is stable
RECURSIVE SortByOrdinal(_)
SortByOrdinal(columns) ==
    IF columns = <<>> THEN <<>>
    ELSE LET m == CHOOSE i \in 1..Len(columns) :
                     /\ \A j \in 1..Len(columns) :
                           columns[i].ordinalPosition <= columns[j].ordinalPosition
                     /\ \A j \in 1..(i - 1) :
                           columns[j].ordinalPosition > columns[i].ordinalPosition
             others == [j \in 1..(Len(columns) - 1) |->
                           IF j < m THEN columns[j] ELSE columns[j + 1]]
         IN <<columns[m]>> \o SortByOrdinal(others)

\* The object computeSchemaHash maps a column to
CanonicalColumn(column) ==
    JsObject(<<[key |-> "column_name", value |-> JsString(<<column.columnName>>)],
               [key |-> "data_type", value |-> JsString(<<column.dataType>>)],
               [key |-> "is_nullable", value |-> JsBoolean(column.isNullable)],
               [key |-> "column_default", value |-> column.columnDefault],
               [key |-> "pk_position", value |-> column.pkPosition]>>)

\* computeSchemaHash without the sort by ordinal position
computeSchemaHash_Unsorted(columns) ==
    sha256Hex(stableStringify(
        JsArray([i \in 1..Len(columns) |-> CanonicalColumn(columns[i])])))

\* computeSchemaHash(columns); the hash is injective on strings
computeSchemaHash(columns) ==
    LET sorted == SortByOrdinal(columns)
    IN sha256Hex(stableStringify(
           JsArray([i \in 1..Len(sorted) |-> CanonicalColumn(sorted[i])])))

----------------------------------------------------------------------------
(* The world of a run *)

\* Bounds of the model
MaxRuns == 2
MaxRows == 2
BatchSize == 1

SourceSchema == "public"
\* The tables of the source schema in the allowlist, as discoverTables
\* returns them (ORDER BY table_name)
TableOrder == <<"orders", "users">>
Tables == {TableOrder[i] : i \in 1..Len(TableOrder)}
SchemaVersions == {"columns_v1", "columns_v2"}

\* The columns of a table in each version of its schema: in the second the
\* data type of the column name has changed
ColumnsOfVersion(version) ==
    <<[columnName |-> "id", dataType |-> "integer", isNullable |-> FALSE,
       columnDefault |-> JsNull, ordinalPosition |-> 1, pkPosition |-> JsNumber(1)],
      [columnName |-> "name",
       dataType |-> IF version = "columns_v1" THEN "character varying" ELSE "text",
       isNullable |-> FALSE, columnDefault |-> JsNull, ordinalPosition |-> 2,
       pkPosition |-> JsNull]>>

\* new Date().toISOString() during run r
TimeOf(r) == r

\* errorMessage(error) of the failures of the external calls
ErrStart == "start: control index unavailable"
ErrDiscover == "discover: source database unavailable"
ErrSnapshot == "snapshot: query failed"
ErrPlan == "plan: catalog read failed"
ErrExecute == "execute: unsupported embedding provider"
ErrFinalize == "finalize: control index write failed"
ErrEnv == "configuration: missing setting"
ErrReset == "table: index reset failed"
ErrFetch == "table: row fetch failed"
ErrUpsert == "table: upsert failed"

IoOp(op, table, arg, ok) == [op |-> op, table |-> table, arg |-> arg, ok |-> ok]

\* The reducer of the fatalError channel: incoming ?? existing
ReduceFatal(existing, incoming) == IF incoming # NULL THEN incoming ELSE existing

\* What discoverTables returns for the source as it is
TableInfoOf(t) ==
    [schema |-> SourceSchema, table |-> t,
     columns |-> ColumnsOfVersion(source[t].schema),
     pkColumns |-> IF source[t].pk THEN <<"id">> ELSE <<>>]

\* computeTableHash({schemaHash, rowCount, maxUpdatedAt, maxPkLexicographic})
computeTableHash(schemaHash, rowCount, maxUpdatedAt, maxPk) ==
    <<"sha256", schemaHash, rowCount, maxUpdatedAt, maxPk>>

\* The snapshot pushed for one table in snapshotSourceTables
SnapshotOf(tableInfo) ==
    LET rowCount == source[tableInfo.table].rows
        schemaHash == computeSchemaHash(tableInfo.columns)
    IN [schema |-> tableInfo.schema, table |-> tableInfo.table,
        rowCount |-> rowCount, maxUpdatedAt |-> NULL,
        schemaHash |-> schemaHash,
        tableHash |-> computeTableHash(schemaHash, rowCount, NULL, NULL)]

----------------------------------------------------------------------------
(* graph.ts: onFullTable, the handler of executeTablePlans *)

Min(a, b) == IF a <= b THEN a ELSE b

\* fetchTableRows({limit, offset}) on a table of n rows: the number of rows
RowsReturned(n, limit, offset) == IF offset >= n THEN 0 ELSE Min(limit, n - offset)

\* while (true) { fetchTableRows; if empty break; transform; addDocuments }
\* `step` numbers the external calls of the handler; call number `fault`
\* fails (0: none does).
RECURSIVE fetchLoop(_, _, _, _, _)
fetchLoop(t, offset, rowsUpserted, step, fault) ==
    LET n == RowsReturned(source[t].rows, BatchSize, offset)
        fetch == IoOp("fetchTableRows", t,
                      [limit |-> BatchSize, offset |-> offset], step # fault)
        upsert == IoOp("addDocuments", t, [count |-> n], step + 1 # fault)
    IN IF step = fault
       THEN [throws |-> TRUE, rows |-> 0, message |-> ErrFetch, ops |-> <<fetch>>]
       ELSE IF n = 0
       THEN [throws |-> FALSE, rows |-> rowsUpserted, message |-> NULL,
             ops |-> <<fetch>>]
       ELSE IF step + 1 = fault
       THEN [throws |-> TRUE, rows |-> 0, message |-> ErrUpsert,
             ops |-> <<fetch, upsert>>]
       ELSE LET rest == fetchLoop(t, offset + n, rowsUpserted + n, step + 2, fault)
            IN [rest EXCEPT !.ops = <<fetch, upsert>> \o @]

\* onFullTable(tablePlan): throws when the table has no tableInfo; resets the
\* target index, then pages through the rows.
onFullTable(tablePlan, infos, fault) ==
    LET known == \E i \in 1..Len(infos) :
                    tableKey(infos[i].schema, infos[i].table)
                        = tableKey(tablePlan.schema, tablePlan.table)
        reset == IoOp("deleteIfExists", tablePlan.table, NullRecord, fault # 1)
    IN IF ~known
       THEN [throws |-> TRUE, rows |-> 0, message |-> "Missing tableInfo", ops |-> <<>>]
       ELSE IF fault = 1
       THEN [throws |-> TRUE, rows |-> 0, message |-> ErrReset, ops |-> <<reset>>]
       ELSE LET loop == fetchLoop(tablePlan.table, 0, 0, 2, fault)
            IN [loop EXCEPT !.ops = <<reset>> \o @]

\* The number of external calls of a fault-free onFullTable on table t
NumSteps(t) ==
    2 + 2 * Cardinality({o \in 0..source[t].rows :
                            o % BatchSize = 0 /\ o < source[t].rows})

\* The target indices after the external calls `ops`: the number of
\* documents of each table's index
RECURSIVE applyOps(_, _)
applyOps(idx, ops) ==
    IF ops = <<>> THEN idx
    ELSE LET o == Head(ops)
             next == IF ~o.ok THEN idx
                     ELSE IF o.op = "deleteIfExists" THEN [idx EXCEPT ![o.table] = 0]
                     ELSE IF o.op = "addDocuments"
                     THEN [idx EXCEPT ![o.table] = @ + o.arg.count]
                     ELSE idx
         IN applyOps(next, Tail(ops))

----------------------------------------------------------------------------
(* graph.ts: finalize *)

NoRun == 0

\* resultsByTable.get(key): the last result with that key, or undefined
resultsByTable(results, key) ==
    LET hits == {i \in 1..Len(results) :
                    tableKey(results[i].schema, results[i].table) = key}
    IN IF hits = {} THEN Undefined
       ELSE results[CHOOSE i \in hits : \A j \in hits : j <= i]

\* buildCatalogRecord taking last_mode from the result only when the table
\* succeeded
buildCatalogRecord_ModeOfSuccess(snapshot, result, existing, run, finishedAt, fatal) ==
    LET failedResult == result # Undefined /\ result.status = "failed"
        tableSucceeded == ~failedResult /\ ~Truthy(fatal) /\ result # Undefined
    IN [schema |-> snapshot.schema,
        table |-> snapshot.table,
        schema_hash |-> snapshot.schemaHash,
        table_hash |-> snapshot.tableHash,
        row_count |-> snapshot.rowCount,
        max_updated_at |-> snapshot.maxUpdatedAt,
        last_success_run_id |->
            IF tableSucceeded THEN run
            ELSE IF existing = NullRecord THEN NoRun
            ELSE existing.last_success_run_id,
        last_success_at |->
            IF tableSucceeded THEN finishedAt
            ELSE IF existing = NullRecord THEN NoRun
            ELSE existing.last_success_at,
        last_mode |->
            IF tableSucceeded THEN result.mode
            ELSE IF existing = NullRecord THEN NULL
            ELSE existing.last_mode,
        last_error |-> IF failedResult THEN result.error ELSE fatal]

\* buildCatalogRecord giving the fatal error precedence over the table's own
\* failure message
buildCatalogRecord_FatalErrorFirst(snapshot, result, existing, run, finishedAt, fatal) ==
    LET failedResult == result # Undefined /\ result.status = "failed"
        tableSucceeded == ~failedResult /\ ~Truthy(fatal) /\ result # Undefined
    IN [schema |-> snapshot.schema,
        table |-> snapshot.table,
        schema_hash |-> snapshot.schemaHash,
        table_hash |-> snapshot.tableHash,
        row_count |-> snapshot.rowCount,
        max_updated_at |-> snapshot.maxUpdatedAt,
        last_success_run_id |->
            IF tableSucceeded THEN run
            ELSE IF existing = NullRecord THEN NoRun
            ELSE existing.last_success_run_id,
        last_success_at |->
            IF tableSucceeded THEN finishedAt
            ELSE IF existing = NullRecord THEN NoRun
            ELSE existing.last_success_at,
        last_mode |->
            IF result # Undefined THEN result.mode
            ELSE IF existing = NullRecord THEN NULL
            ELSE existing.last_mode,
        last_error |-> IF Truthy(fatal) THEN fatal
                       ELSE IF failedResult THEN result.error ELSE NULL]

buildCatalogRecord(snapshot, result, existing, run, finishedAt, fatal) ==
    LET failedResult == result # Undefined /\ result.status = "failed"
        tableSucceeded == ~failedResult /\ ~Truthy(fatal) /\ result # Undefined
    IN [schema |-> snapshot.schema,
        table |-> snapshot.table,
        schema_hash |-> snapshot.schemaHash,
        table_hash |-> snapshot.tableHash,
        row_count |-> snapshot.rowCount,
        max_updated_at |-> snapshot.maxUpdatedAt,
        last_success_run_id |->
            IF tableSucceeded THEN run
            ELSE IF existing = NullRecord THEN NoRun
            ELSE existing.last_success_run_id,
        last_success_at |->
            IF tableSucceeded THEN finishedAt
            ELSE IF existing = NullRecord THEN NoRun
            ELSE existing.last_success_at,
        last_mode |->
            IF result # Undefined THEN result.mode
            ELSE IF existing = NullRecord THEN NULL
            ELSE existing.last_mode,
        last_error |-> IF failedResult THEN result.error ELSE fatal]

\* The record finalizeRun builds for the i-th snapshot of the state
catalogRecordAt(i) ==
    LET snapshot == tableSnapshots[i]
        key == tableKey(snapshot.schema, snapshot.table)
    IN buildCatalogRecord(snapshot,
                          resultsByTable(tableResults, key),
                          Coalesce(catalogEntry(catalogByTable, key), NullRecord),
                          runId, TimeOf(runId), fatalError)

----------------------------------------------------------------------------
(* estimate.ts: the work queue of processTablesInParallel *)

\* Math.ceil(a / b) for integers a >= 0, b > 0
CeilDiv(a, b) == (a + b - 1) \div b

\* rowCounts.get(key) ?? 0
KnownRowCount(rowCounts, key) ==
    IF key \in DOMAIN rowCounts THEN rowCounts[key] ELSE 0

\* The items buildQueue pushes for one table
queueItemsOf(tableInfo, rowCounts, largeTableThreshold, chunkSize) ==
    LET key == tableKey(tableInfo.schema, tableInfo.table)
        rowCount == KnownRowCount(rowCounts, key)
    IN IF rowCount >= largeTableThreshold /\ chunkSize > 0
       THEN [i \in 1..CeilDiv(rowCount, chunkSize) |->
                [kind |-> "chunk", tableInfo |-> tableInfo,
                 chunkId |-> <<key, i - 1>>,
                 offsetStart |-> (i - 1) * chunkSize,
                 rowLimit |-> chunkSize,
                 tableKey |-> key]]
       ELSE <<[kind |-> "table", tableInfo |-> tableInfo]>>

\* for (const tableInfo of tables) { ... queue.push(...) } from table i on
RECURSIVE queueFrom(_, _, _, _, _)
queueFrom(tables, i, rowCounts, largeTableThreshold, chunkSize) ==
    IF i > Len(tables) THEN <<>>
    ELSE queueItemsOf(tables[i], rowCounts, largeTableThreshold, chunkSize)
         \o queueFrom(tables, i + 1, rowCounts, largeTableThreshold, chunkSize)

\* chunkCounts: the number of chunks of every table that was split
chunkCountsOf(tables, rowCounts, largeTableThreshold, chunkSize) ==
    LET split == {i \in 1..Len(tables) :
                    /\ KnownRowCount(rowCounts,
                           tableKey(tables[i].schema, tables[i].table))
                         >= largeTableThreshold
                    /\ chunkSize > 0}
        keys == {tableKey(tables[i].schema, tables[i].table) : i \in split}
    IN [key \in keys |-> CeilDiv(KnownRowCount(rowCounts, key), chunkSize)]

\* buildQueue splitting every table, whatever the threshold is
buildQueue_SplitEveryTable(tables, rowCounts, largeTableThreshold, chunkSize) ==
    [queue |-> queueFrom(tables, 1, rowCounts, 0, chunkSize),
     chunkCounts |-> chunkCountsOf(tables, rowCounts, 0, chunkSize)]

buildQueue(tables, rowCounts, largeTableThreshold, chunkSize) ==
    [queue |-> queueFrom(tables, 1, rowCounts, largeTableThreshold, chunkSize),
     chunkCounts |-> chunkCountsOf(tables, rowCounts, largeTableThreshold, chunkSize)]

\* No call of processTablesInParallel is in progress
PoolIdle ==
    /\ opts = [isNone |-> TRUE]
    /\ queue = <<>>
    /\ chunkCounts = <<>>
    /\ estimates = <<>>
    /\ aggregators = <<>>
    /\ aliveWorkers = 0
    /\ workerErrors = <<>>
    /\ promise = [state |-> "none"]
    /\ worker = <<>>
    /\ batch = <<>>
    /\ toWorker = <<>>
    /\ toMain = <<>>
    /\ completed = <<>>
    /\ errored = <<>>
    /\ chunkResults = {}
    /\ sent = <<>>

----------------------------------------------------------------------------
(* graph.ts: the six nodes of the graph *)

Log(ops) == io' = io \o ops

\* A node that returns at once whatever the state is never short-circuits
ShortCircuit_Never == FALSE

\* if (state.fatalError) { return ... }: the first statement of the nodes
\* discover, snapshot, plan and execute
ShortCircuit == Truthy(fatalError)

\* The run-record written by startRun
RunningRecord(run) ==
    [run_id |-> run, status |-> "running", finished |-> FALSE,
     tables_total |-> 0, tables_reindexed |-> 0, tables_skipped |-> 0,
     rows_upserted |-> 0, errors |-> <<>>]

\* startRun without its putRunRecord: the record of the run is first
\* written by finalizeRun
StartRun_NoRunRecord ==
    /\ pc = "start"
    /\ stages' = Append(stages, "startRun")
    /\ fatalError' = ReduceFatal(fatalError, IF envOk THEN NULL ELSE ErrEnv)
    /\ status' = IF envOk THEN "running" ELSE "failed"
    /\ summary' = defaultRunSummary
    /\ tableResults' = <<>>
    /\ pc' = "discover"
    /\ UNCHANGED <<runId, tableInfos, tableSnapshots, tablePlans, catalogByTable,
                   source, catalogStore, runStore, index, envOk, io, catalogBefore,
                   callVars, poolVars>>

\* startRun: the whole body is inside try/catch
StartRun ==
    /\ pc = "start"
    /\ stages' = Append(stages, "startRun")
    /\ \E putOk \in BOOLEAN :
        LET ok == envOk /\ putOk
        IN /\ fatalError' = ReduceFatal(fatalError,
                               IF ok THEN NULL
                               ELSE IF envOk THEN ErrStart ELSE ErrEnv)
           /\ status' = IF ok THEN "running" ELSE "failed"
           /\ Log(IF envOk THEN <<IoOp("putRunRecord", "-", NullRecord, putOk)>>
                  ELSE <<>>)
           /\ runStore' = IF ok THEN RunningRecord(runId) ELSE runStore
    /\ summary' = defaultRunSummary
    /\ tableResults' = <<>>
    /\ pc' = "discover"
    /\ UNCHANGED <<runId, tableInfos, tableSnapshots, tablePlans, catalogByTable,
                   source, catalogStore, index, envOk, catalogBefore, callVars, poolVars>>

\* discoverSourceTables: the pool is closed in `finally`, outside the catch;
\* an error of closePostgresPool leaves the node as an exception
DiscoverSourceTables ==
    /\ pc = "discover"
    /\ stages' = Append(stages, "discoverTables")
    /\ IF ShortCircuit
       THEN /\ pc' = "snapshot"
            /\ UNCHANGED <<fatalError, status, tableInfos, io>>
       ELSE \E discoverOk, closeOk \in BOOLEAN :
            /\ Log(<<IoOp("discoverTables", "-", NullRecord, discoverOk),
                     IoOp("closePostgresPool", "-", NullRecord, closeOk)>>)
            /\ IF ~closeOk
               THEN pc' = "aborted" /\ UNCHANGED <<fatalError, status, tableInfos>>
               ELSE /\ pc' = "snapshot"
                    /\ IF discoverOk
                       THEN /\ tableInfos' = [i \in 1..Len(TableOrder) |->
                                                 TableInfoOf(TableOrder[i])]
                            /\ UNCHANGED <<fatalError, status>>
                       ELSE /\ fatalError' = ReduceFatal(fatalError, ErrDiscover)
                            /\ status' = "failed"
                            /\ UNCHANGED tableInfos
    /\ UNCHANGED <<runId, tableSnapshots, tablePlans, tableResults, catalogByTable,
                   summary, source, catalogStore, runStore, index, envOk,
                   catalogBefore, callVars, poolVars>>

\* snapshotSourceTables: fetchTableSnapshot of table `fault` fails (0: none)
SnapshotSourceTables ==
    /\ pc = "snapshot"
    /\ stages' = Append(stages, "snapshotTables")
    /\ IF ShortCircuit
       THEN /\ pc' = "plan"
            /\ UNCHANGED <<fatalError, status, tableSnapshots, io>>
       ELSE \E fault \in 0..Len(tableInfos), closeOk \in BOOLEAN :
            LET fetched == IF fault = 0 THEN Len(tableInfos) ELSE fault
            IN /\ Log([i \in 1..fetched |->
                          IoOp("fetchTableSnapshot", tableInfos[i].table,
                               NullRecord, i # fault)]
                      \o <<IoOp("closePostgresPool", "-", NullRecord, closeOk)>>)
               /\ IF ~closeOk
                  THEN pc' = "aborted" /\ UNCHANGED <<fatalError, status, tableSnapshots>>
                  ELSE /\ pc' = "plan"
                       /\ IF fault = 0
                          THEN /\ tableSnapshots' = [i \in 1..Len(tableInfos) |->
                                                        SnapshotOf(tableInfos[i])]
                               /\ UNCHANGED <<fatalError, status>>
                          ELSE /\ fatalError' = ReduceFatal(fatalError, ErrSnapshot)
                               /\ status' = "failed"
                               /\ UNCHANGED tableSnapshots
    /\ UNCHANGED <<runId, tableInfos, tablePlans, tableResults, catalogByTable,
                   summary, source, catalogStore, runStore, index, envOk,
                   catalogBefore, callVars, poolVars>>

\* planTableExecution: getCatalogRecord of table `fault` fails (0: none);
\* a record that is not found is null
PlanTableExecution ==
    /\ pc = "plan"
    /\ stages' = Append(stages, "planTables")
    /\ pc' = "execute"
    /\ IF ShortCircuit
       THEN UNCHANGED <<fatalError, status, catalogByTable, tablePlans, io>>
       ELSE \E fault \in 0..Len(tableInfos) :
            LET read == IF fault = 0 THEN Len(tableInfos) ELSE fault
                keys == {tableKey(tableInfos[i].schema, tableInfos[i].table) :
                            i \in 1..Len(tableInfos)}
                catalog == [k \in keys |-> catalogStore[k[2]]]
            IN /\ Log([i \in 1..read |->
                          IoOp("getCatalogRecord", tableInfos[i].table,
                               NullRecord, i # fault)])
               /\ IF fault = 0 /\ envOk
                  THEN /\ catalogByTable' = catalog
                       /\ tablePlans' = buildTablePlans(tableInfos, tableSnapshots,
                                                        catalog)
                       /\ UNCHANGED <<fatalError, status>>
                  ELSE /\ fatalError' = ReduceFatal(fatalError, ErrPlan)
                       /\ status' = "failed"
                       /\ UNCHANGED <<catalogByTable, tablePlans>>
    /\ UNCHANGED <<runId, tableInfos, tableSnapshots, tableResults, summary,
                   source, catalogStore, runStore, index, envOk, catalogBefore,
                   callVars, poolVars>>


\* The choices of the failing external call of each plan's handler
HandlerFaults ==
    {f \in [1..Len(tablePlans) -> 0..(2 + 2 * MaxRows)] :
        \A i \in 1..Len(tablePlans) :
            IF tablePlans[i].mode = "full"
            THEN f[i] <= NumSteps(tablePlans[i].table)
            ELSE f[i] = 0}

\* executeTablePlans.  With a fatal error it returns at once.  Otherwise
\* the clients are created (makeTextEmbeddings may throw: fatal), the plans
\* are executed, and the pool is closed in `finally`: an error of
\* closePostgresPool leaves the node as an exception and the node's update
\* is lost.  ensureDbSyncConfiguration is called outside any try.
ExecuteTablePlans ==
    /\ pc = "execute"
    /\ stages' = Append(stages, "executeTables")
    /\ IF ShortCircuit
       THEN /\ tableResults' = <<>>
            /\ summary' = summarizeRun(tablePlans, <<>>)
            /\ pc' = "finalize"
            /\ UNCHANGED <<fatalError, status, index, io>>
       ELSE IF ~envOk
       THEN /\ pc' = "aborted"
            /\ UNCHANGED <<fatalError, status, tableResults, summary, index, io>>
       ELSE \E clientsOk, closeOk \in BOOLEAN, faults \in HandlerFaults :
            IF ~clientsOk
            THEN /\ fatalError' = ReduceFatal(fatalError, ErrExecute)
                 /\ status' = "failed"
                 /\ pc' = "finalize"
                 /\ UNCHANGED <<tableResults, summary, index, io>>
            ELSE LET handler == [i \in 1..Len(tablePlans) |->
                                    onFullTable(tablePlans[i], tableInfos, faults[i])]
                     done == executePlansWithHandler(tablePlans, handler)
                 IN /\ Log(done.ops
                           \o <<IoOp("closePostgresPool", "-", NullRecord, closeOk)>>)
                    /\ index' = applyOps(index, done.ops)
                    /\ UNCHANGED <<fatalError, status>>
                    /\ IF closeOk
                       THEN /\ tableResults' = done.results
                            /\ summary' = summarizeRun(tablePlans, done.results)
                            /\ pc' = "finalize"
                       ELSE /\ pc' = "aborted"
                            /\ UNCHANGED <<tableResults, summary>>
    /\ UNCHANGED <<runId, tableInfos, tableSnapshots, tablePlans, catalogByTable,
                   source, catalogStore, runStore, envOk, catalogBefore, callVars, poolVars>>

\* The final run-record of finalizeRun
FinalRecord(run, runStatus, sum, runErrors) ==
    [run_id |-> run, status |-> runStatus, finished |-> TRUE,
     tables_total |-> sum.tablesTotal,
     tables_reindexed |-> sum.tablesReindexed,
     tables_skipped |-> sum.tablesSkipped,
     rows_upserted |-> sum.rowsUpserted,
     errors |-> runErrors]

\* finalizeRun: the whole body is inside try/catch.  Write number `fault`
\* fails (0: none): the putCatalogRecord of snapshot `fault`, or, after the
\* last snapshot, putRunRecord.
FinalizeRun ==
    /\ pc = "finalize"
    /\ stages' = Append(stages, "finalizeRun")
    /\ pc' = "done"
    /\ \E fault \in 0..(Len(tableSnapshots) + 1) :
        LET n == Len(tableSnapshots)
            attempted == IF ~envOk THEN 0
                         ELSE IF fault = 0 \/ fault > n THEN n ELSE fault
            written == IF ~envOk THEN 0
                       ELSE IF fault = 0 \/ fault > n THEN n ELSE fault - 1
            failed == ~envOk \/ fault # 0
            sum == summarizeRun(tablePlans, tableResults)
            runErrors == IF Truthy(fatalError)
                         THEN Append(sum.errors,
                                     [tableKey |-> "bootstrap", message |-> fatalError])
                         ELSE sum.errors
            runStatus == computeRunStatus(fatalError, tableResults)
            lastWrite(t) == {i \in 1..written : tableSnapshots[i].table = t}
        IN /\ Log([i \in 1..attempted |->
                      IoOp("putCatalogRecord", tableSnapshots[i].table,
                           catalogRecordAt(i), i # fault)]
                  \o (IF envOk /\ (fault = 0 \/ fault > n)
                      THEN <<IoOp("putRunRecord", "-", NullRecord, fault = 0)>>
                      ELSE <<>>))
           /\ catalogStore' =
                [t \in Tables |->
                    IF lastWrite(t) = {} THEN catalogStore[t]
                    ELSE catalogRecordAt(CHOOSE i \in lastWrite(t) :
                                            \A j \in lastWrite(t) : j <= i)]
           /\ IF failed
              THEN /\ status' = "failed"
                   /\ fatalError' = ReduceFatal(fatalError,
                                       IF fatalError # NULL THEN fatalError
                                       ELSE IF envOk THEN ErrFinalize ELSE ErrEnv)
                   /\ UNCHANGED <<summary, runStore>>
              ELSE /\ status' = runStatus
                   /\ summary' = [sum EXCEPT !.errors = runErrors]
                   /\ runStore' = FinalRecord(runId, runStatus, sum, runErrors)
                   /\ UNCHANGED fatalError
    /\ UNCHANGED <<runId, tableInfos, tableSnapshots, tablePlans, tableResults,
                   catalogByTable, source, index, envOk, catalogBefore, callVars, poolVars>>

\* What may change in the source database between two runs: nothing, the
\* columns of one table, or the rows of one table
SourceChanges ==
    {source}
    \cup {[source EXCEPT ![t].schema = v] : t \in Tables, v \in SchemaVersions}
    \cup {[source EXCEPT ![t].rows = r] : t \in Tables, r \in 0..MaxRows}

\* The graph is invoked again: every channel starts from its default
NextRun ==
    /\ pc \in {"done", "aborted"}
    /\ runId < MaxRuns
    /\ pc' = "start"
    /\ runId' = runId + 1
    /\ fatalError' = NULL
    /\ status' = "running"
    /\ tableInfos' = <<>>
    /\ tableSnapshots' = <<>>
    /\ tablePlans' = <<>>
    /\ tableResults' = <<>>
    /\ catalogByTable' = <<>>
    /\ summary' = defaultRunSummary
    /\ source' \in SourceChanges
    /\ envOk' \in BOOLEAN
    /\ io' = <<>>
    /\ stages' = <<>>
    /\ catalogBefore' = catalogStore
    /\ runStore' = NullRecord
    /\ UNCHANGED <<catalogStore, index, callVars, poolVars>>

NoCall == [isNone |-> TRUE]

CallIdle == fn = "none" /\ args = NoCall /\ ret = NoCall

RunInit ==
    /\ PoolIdle
    /\ pc = "start"
    /\ runId = 1
    /\ fatalError = NULL
    /\ status = "running"
    /\ tableInfos = <<>>
    /\ tableSnapshots = <<>>
    /\ tablePlans = <<>>
    /\ tableResults = <<>>
    /\ catalogByTable = <<>>
    /\ summary = defaultRunSummary
    /\ source \in [Tables -> [pk : BOOLEAN, schema : {"columns_v1"}, rows : {MaxRows}]]
    /\ catalogStore = [t \in Tables |-> NullRecord]
    /\ runStore = NullRecord
    /\ index = [t \in Tables |-> 0]
    /\ envOk \in BOOLEAN
    /\ io = <<>>
    /\ stages = <<>>
    /\ catalogBefore = catalogStore

Init == RunInit /\ CallIdle

Next ==
    \/ StartRun
    \/ DiscoverSourceTables
    \/ SnapshotSourceTables
    \/ PlanTableExecution
    \/ ExecuteTablePlans
    \/ FinalizeRun
    \/ NextRun

Spec == Init /\ [][Next]_vars

----------------------------------------------------------------------------
(* Direct calls of the exported functions of graph.ts, as the tests make   *)
(* them: the arguments are drawn from bounded sets, the call is one step.  *)

\* No run is in progress
RunIdle ==
    /\ PoolIdle
    /\ pc = "idle"
    /\ runId = 1
    /\ fatalError = NULL
    /\ status = "running"
    /\ tableInfos = <<>>
    /\ tableSnapshots = <<>>
    /\ tablePlans = <<>>
    /\ tableResults = <<>>
    /\ catalogByTable = <<>>
    /\ summary = defaultRunSummary
    /\ source = [t \in Tables |-> [pk |-> TRUE, schema |-> "columns_v1", rows |-> 0]]
    /\ catalogStore = [t \in Tables |-> NullRecord]
    /\ runStore = NullRecord
    /\ index = [t \in Tables |-> 0]
    /\ envOk = TRUE
    /\ io = <<>>
    /\ stages = <<>>
    /\ catalogBefore = catalogStore

\* Bounds of the direct calls
MaxPlans == 3
MaxResults == 2
MaxHandlerRows == 2

HashValues == {"hash_a", "hash_b", "hash_c"}
PlanHashValues == {"hash_a", "hash_b"}

\* A stored ControlCatalogRecord of table t
StoredCatalog(t, schemaHash, tableHash) ==
    [schema |-> SourceSchema, table |-> t,
     schema_hash |-> schemaHash, table_hash |-> tableHash,
     row_count |-> 10, max_updated_at |-> NULL,
     last_success_run_id |-> 1, last_success_at |-> 1,
     last_mode |-> "full", last_error |-> NULL]

\* Sequences over S that name no table twice
DistinctSeqs(S) ==
    {q \in SeqsUpTo(S, Cardinality({x.table : x \in S})) :
        \A i, j \in 1..Len(q) : q[i].table = q[j].table => i = j}

(* decideTableMode *)

DecideInputs ==
    [previousCatalog : {NullRecord}
                       \cup {StoredCatalog("users", sh, th) :
                                sh \in HashValues, th \in HashValues},
     schemaHash : HashValues, tableHash : HashValues, hasPrimaryKey : BOOLEAN]

InitDecide == RunIdle /\ fn = "none" /\ args \in DecideInputs /\ ret = NoCall

CallDecideTableMode ==
    /\ fn = "none"
    /\ fn' = "decideTableMode"
    /\ ret' = decideTableMode(args)
    /\ UNCHANGED <<args, runVars>>

SpecDecide == InitDecide /\ [][CallDecideTableMode]_vars

(* buildTablePlans: the tables of tableInfos are distinct (discoverTables  *)
(* returns each table once), and so are those of tableSnapshots            *)

PlanTableInfos ==
    [schema : {SourceSchema}, table : Tables, columns : {ColumnsOfVersion("columns_v1")},
     pkColumns : {<<>>, <<"id">>}]

PlanSnapshots ==
    [schema : {SourceSchema}, table : Tables, rowCount : {10},
     maxUpdatedAt : {NULL}, schemaHash : PlanHashValues, tableHash : PlanHashValues]

\* catalogByTable: a key is absent, or holds null, or holds a record
PlanCatalogs ==
    LET stored == {StoredCatalog(t, sh, th) :
                      t \in Tables, sh \in PlanHashValues, th \in PlanHashValues}
        all == UNION {[{tableKey(SourceSchema, t) : t \in held} ->
                          {NullRecord} \cup stored] : held \in SUBSET Tables}
    IN {c \in all : \A k \in DOMAIN c : c[k] = NullRecord \/ c[k].table = k[2]}

InitPlans ==
    /\ RunIdle
    /\ fn = "none"
    /\ args \in [tableInfos : DistinctSeqs(PlanTableInfos),
                 tableSnapshots : DistinctSeqs(PlanSnapshots),
                 catalogByTable : PlanCatalogs]
    /\ ret = NoCall

CallBuildTablePlans ==
    /\ fn = "none"
    /\ fn' = "buildTablePlans"
    /\ ret' = buildTablePlans(args.tableInfos, args.tableSnapshots, args.catalogByTable)
    /\ UNCHANGED <<args, runVars>>

SpecPlans == InitPlans /\ [][CallBuildTablePlans]_vars

----------------------------------------------------------------------------
(* Claims about the planner *)

Outcome(mode, reason) == [mode |-> mode, reason |-> reason]

\* C1: decideTableMode is a strict first-match decision: no primary key ->
\* skip/skipped_no_pk whatever the catalog and the hashes are; else no
\* previous catalog -> full/no_previous_catalog; else a different stored
\* schema_hash -> full/schema_hash_changed, also when the stored table_hash
\* equals the current one; else a different stored table_hash ->
\* full/table_hash_changed; else skip/table_hash_unchanged.  Every input
\* gets one of these five outcomes.
C1_DecideFirstMatch ==
    fn = "decideTableMode" =>
        LET prev == args.previousCatalog
            noPk == ~args.hasPrimaryKey
            noPrev == prev = NullRecord
            schemaDiffers == ~noPrev /\ prev.schema_hash # args.schemaHash
            tableDiffers == ~noPrev /\ prev.table_hash # args.tableHash
        IN /\ noPk => ret = Outcome("skip", "skipped_no_pk")
           /\ ~noPk /\ noPrev => ret = Outcome("full", "no_previous_catalog")
           /\ ~noPk /\ ~noPrev /\ schemaDiffers
                => ret = Outcome("full", "schema_hash_changed")
           /\ ~noPk /\ ~noPrev /\ ~schemaDiffers /\ tableDiffers
                => ret = Outcome("full", "table_hash_changed")
           /\ ~noPk /\ ~noPrev /\ ~schemaDiffers /\ ~tableDiffers
                => ret = Outcome("skip", "table_hash_unchanged")
           /\ ret \in {Outcome("skip", "skipped_no_pk"),
                       Outcome("full", "no_previous_catalog"),
                       Outcome("full", "schema_hash_changed"),
                       Outcome("full", "table_hash_changed"),
                       Outcome("skip", "table_hash_unchanged")}

\* A table with a primary key whose stored schema_hash differs while its
\* stored table_hash equals the current one has been decided
C1_Witness ==
    /\ fn = "decideTableMode"
    /\ args.hasPrimaryKey
    /\ args.previousCatalog # NullRecord
    /\ args.previousCatalog.schema_hash # args.schemaHash
    /\ args.previousCatalog.table_hash = args.tableHash
    /\ ret = Outcome("full", "schema_hash_changed")

\* The snapshots of tableInfo's table among the snapshots given
SnapshotsFor(tableInfo, snapshots) ==
    {snapshots[j] : j \in {j \in 1..Len(snapshots) :
        snapshots[j].schema = tableInfo.schema /\ snapshots[j].table = tableInfo.table}}

\* C2: buildTablePlans returns exactly one plan per discovered table, in the
\* order of tableInfos and with the same (schema, table); a table with no
\* snapshot gets skip/snapshot_missing, before the primary-key rule; a
\* missing or null catalog entry counts as no previous catalog; every other
\* table gets the decision of decideTableMode on its snapshot's hashes.
C2_OnePlanPerTable ==
    fn = "buildTablePlans" =>
        /\ Len(ret) = Len(args.tableInfos)
        /\ \A i \in 1..Len(args.tableInfos) :
            LET info == args.tableInfos[i]
                key == tableKey(info.schema, info.table)
                snaps == SnapshotsFor(info, args.tableSnapshots)
                noPrev == \/ key \notin DOMAIN args.catalogByTable
                          \/ args.catalogByTable[key] = NullRecord
            IN /\ ret[i].schema = info.schema
               /\ ret[i].table = info.table
               /\ snaps = {} => Outcome(ret[i].mode, ret[i].reason)
                                   = Outcome("skip", "snapshot_missing")
               /\ \A snap \in snaps :
                    Outcome(ret[i].mode, ret[i].reason)
                        = decideTableMode(
                            [previousCatalog |-> IF noPrev THEN NullRecord
                                                 ELSE args.catalogByTable[key],
                             schemaHash |-> snap.schemaHash,
                             tableHash |-> snap.tableHash,
                             hasPrimaryKey |-> info.pkColumns # <<>>])

\* Two tables were planned: one without primary key and without snapshot
\* (snapshot_missing), and one whose catalog entry is null (planned full)
C2_Witness ==
    /\ fn = "buildTablePlans"
    /\ Len(ret) = 2
    /\ \E i, j \in 1..2 :
        /\ args.tableInfos[i].pkColumns = <<>>
        /\ SnapshotsFor(args.tableInfos[i], args.tableSnapshots) = {}
        /\ ret[i].reason = "snapshot_missing"
        /\ tableKey(SourceSchema, args.tableInfos[j].table) \in DOMAIN args.catalogByTable
        /\ args.catalogByTable[tableKey(SourceSchema, args.tableInfos[j].table)] = NullRecord
        /\ ret[j].reason = "no_previous_catalog"

----------------------------------------------------------------------------
(* executePlansWithHandler, computeRunStatus, summarizeRun called directly *)

ExecPlans ==
    [schema : {SourceSchema}, table : Tables,
     mode : {"full"}, reason : {"no_previous_catalog"}]
    \cup [schema : {SourceSchema}, table : Tables,
          mode : {"skip"}, reason : {"table_hash_unchanged"}]

\* What the handler passed by the caller does for one plan: it throws, or
\* it returns a number of rows
HandlerOutcomes ==
    {[throws |-> TRUE, rows |-> 0, message |-> "table failed", ops |-> <<>>]}
    \cup {[throws |-> FALSE, rows |-> n, message |-> NULL, ops |-> <<>>] :
            n \in 0..MaxHandlerRows}

InitExecute ==
    /\ RunIdle
    /\ fn = "none"
    /\ \E n \in 0..MaxPlans :
        args \in [tablePlans : [1..n -> ExecPlans], handler : [1..n -> HandlerOutcomes]]
    /\ ret = NoCall

CallExecutePlansWithHandler ==
    /\ fn = "none"
    /\ fn' = "executePlansWithHandler"
    /\ ret' = executePlansWithHandler(args.tablePlans, args.handler)
    /\ UNCHANGED <<args, runVars>>

SpecExecute == InitExecute /\ [][CallExecutePlansWithHandler]_vars

\* TableRunResult values, also those executePlansWithHandler never builds
SummaryResults ==
    [schema : {SourceSchema}, table : Tables, mode : {"full"},
     status : {"reindexed"}, rowsUpserted : 0..MaxHandlerRows, error : {NULL}]
    \cup [schema : {SourceSchema}, table : Tables, mode : {"skip"},
          status : {"skipped"}, rowsUpserted : 0..MaxHandlerRows, error : {NULL}]
    \cup [schema : {SourceSchema}, table : Tables, mode : {"full"},
          status : {"failed"}, rowsUpserted : 0..MaxHandlerRows,
          error : {NULL, "table failed"}]

InitSummary ==
    /\ RunIdle
    /\ fn = "none"
    /\ args \in [fatalError : {NULL, "fatal"},
                 tablePlans : {[i \in 1..n |-> CHOOSE plan \in ExecPlans : TRUE] :
                                  n \in 0..MaxResults},
                 tableResults : SeqsUpTo(SummaryResults, MaxResults)]
    /\ ret = NoCall

CallComputeRunStatus ==
    /\ fn = "none"
    /\ fn' = "computeRunStatus"
    /\ ret' = computeRunStatus(args.fatalError, args.tableResults)
    /\ UNCHANGED <<args, runVars>>

CallSummarizeRun ==
    /\ fn = "none"
    /\ fn' = "summarizeRun"
    /\ ret' = summarizeRun(args.tablePlans, args.tableResults)
    /\ UNCHANGED <<args, runVars>>

NextSummary == CallComputeRunStatus \/ CallSummarizeRun

SpecSummary == InitSummary /\ [][NextSummary]_vars

----------------------------------------------------------------------------
(* Claims about execution, run status and summary *)

\* The indices i..Len(s) of s that are in `wanted`, in ascending order
RECURSIVE IndicesFrom(_, _, _)
IndicesFrom(s, i, wanted) ==
    IF i > Len(s) THEN <<>>
    ELSE (IF i \in wanted THEN <<i>> ELSE <<>>) \o IndicesFrom(s, i + 1, wanted)

FullPlans(plans) == {i \in 1..Len(plans) : plans[i].mode = "full"}

\* C3: in every result of executePlansWithHandler a skip plan yields status
\* skipped with rowsUpserted 0 and error null, and the handler is not
\* called for it; a full plan yields reindexed (rowsUpserted = what the
\* handler returned, error null) or failed (rowsUpserted 0, error = the
\* failure message), never skipped.
C3_ResultMatchesMode ==
    fn = "executePlansWithHandler" =>
        \A i \in (1..Len(ret.results)) \cap (1..Len(args.tablePlans)) :
            LET plan == args.tablePlans[i]
                result == ret.results[i]
                outcome == args.handler[i]
                called == \E k \in 1..Len(ret.calls) : ret.calls[k] = i
            IN /\ plan.mode = "skip" =>
                    /\ result.status = "skipped"
                    /\ result.rowsUpserted = 0
                    /\ result.error = NULL
                    /\ ~called
               /\ plan.mode = "full" =>
                    /\ result.status \in {"reindexed", "failed"}
                    /\ result.status = "reindexed" =>
                        /\ ~outcome.throws
                        /\ result.rowsUpserted = outcome.rows
                        /\ result.error = NULL
                    /\ result.status = "failed" =>
                        /\ outcome.throws
                        /\ result.rowsUpserted = 0
                        /\ result.error = outcome.message

\* A call with a skip plan, a reindexed full plan and a failed full plan
C3_Witness ==
    /\ fn = "executePlansWithHandler"
    /\ \E i, j, k \in 1..Len(ret.results) :
        /\ args.tablePlans[i].mode = "skip" /\ ret.results[i].status = "skipped"
        /\ ret.results[j].status = "reindexed" /\ ret.results[j].rowsUpserted > 0
        /\ ret.results[k].status = "failed"

\* C4: for any plans and any set of full tables whose handler throws, the
\* handler is still called for every later full table, and the results have
\* the length and the order of the plans: no exception ends the loop.
C4_FaultIsolation ==
    fn = "executePlansWithHandler" =>
        /\ Len(ret.results) = Len(args.tablePlans)
        /\ \A i \in 1..Len(args.tablePlans) :
            /\ ret.results[i].schema = args.tablePlans[i].schema
            /\ ret.results[i].table = args.tablePlans[i].table
            /\ ret.results[i].mode = args.tablePlans[i].mode
        /\ ret.calls = IndicesFrom(args.tablePlans, 1, FullPlans(args.tablePlans))

\* The handler threw for a full table and was called for a later full table,
\* which was reindexed
C4_Witness ==
    /\ fn = "executePlansWithHandler"
    /\ \E i, j \in 1..Len(ret.results) :
        /\ i < j
        /\ args.handler[i].throws /\ ret.results[i].status = "failed"
        /\ ret.results[j].status = "reindexed"
        /\ \E k \in 1..Len(ret.calls) : ret.calls[k] = j

WithStatus(results, st) == {i \in 1..Len(results) : results[i].status = st}

RECURSIVE RowsOver(_, _)
RowsOver(results, indices) ==
    IF indices = {} THEN 0
    ELSE LET i == CHOOSE i \in indices : TRUE
         IN results[i].rowsUpserted + RowsOver(results, indices \ {i})

\* C6: summarizeRun: tablesTotal = number of plans, tablesReindexed = number
\* of reindexed results, tablesSkipped = number of skipped results,
\* rowsUpserted = sum of rowsUpserted over the reindexed results only, errors
\* has exactly one {tableKey, message} entry per failed result; hence
\* tablesReindexed + tablesSkipped + |errors| = |tableResults|.
C6_Summary ==
    fn = "summarizeRun" =>
        LET results == args.tableResults
            failed == IndicesFrom(results, 1, WithStatus(results, "failed"))
        IN /\ ret.tablesTotal = Len(args.tablePlans)
           /\ ret.tablesReindexed = Cardinality(WithStatus(results, "reindexed"))
           /\ ret.tablesSkipped = Cardinality(WithStatus(results, "skipped"))
           /\ ret.rowsUpserted = RowsOver(results, WithStatus(results, "reindexed"))
           /\ Len(ret.errors) = Len(failed)
           /\ \A k \in 1..Len(failed) :
                /\ ret.errors[k].tableKey
                     = tableKey(results[failed[k]].schema, results[failed[k]].table)
                /\ ret.errors[k].message
                     = IF results[failed[k]].error = NULL THEN "unknown_table_error"
                       ELSE results[failed[k]].error
           /\ ret.tablesReindexed + ret.tablesSkipped + Len(ret.errors) = Len(results)

\* A summary of a reindexed result with rows and a failed result
C6_Witness ==
    /\ fn = "summarizeRun"
    /\ Len(args.tableResults) = 2
    /\ ret.tablesReindexed = 1
    /\ ret.rowsUpserted > 0
    /\ Len(ret.errors) = 1
    /\ Len(args.tablePlans) = 2

----------------------------------------------------------------------------
(* Claims about the run *)

SixStages ==
    <<"startRun", "discoverTables", "snapshotTables", "planTables",
      "executeTables", "finalizeRun">>

RunEnded == pc \in {"done", "aborted"}

\* C7: every run executes the six stages start, discover, snapshot, plan,
\* execute, finalize exactly once each in that order, finalize is reached
\* whatever failures the earlier stages recorded, and when the run ends its
\* status is success, partial_success or failed, never running.
C7_SixStagesThenFinalStatus ==
    /\ Len(stages) <= Len(SixStages)
    /\ \A i \in 1..Len(stages) : stages[i] = SixStages[i]
    /\ RunEnded => /\ stages = SixStages
                   /\ status \in {"success", "partial_success", "failed"}

\* The part of C7 that the code keeps: a run that returns has executed the
\* six stages in order and returns a final status
ReturnedRunsAreComplete ==
    /\ Len(stages) <= Len(SixStages)
    /\ \A i \in 1..Len(stages) : stages[i] = SixStages[i]
    /\ pc = "done" => /\ stages = SixStages
                      /\ status \in {"success", "partial_success", "failed"}

FinalizeWrites ==
    {k \in (Len(io) + 1)..Len(io') : io'[k].op = "putCatalogRecord"}

\* The result of the table of catalog record r in the state (undefined if none)
ResultOf(r) == resultsByTable(tableResults, tableKey(r.schema, r.table))

\* The table of record r succeeded in the run: no fatal error, and a result
\* that is not failed
SucceededInRun(r) ==
    /\ fatalError = NULL
    /\ ResultOf(r) # Undefined
    /\ ResultOf(r).status # "failed"

\* A field of the catalog record stored for r's table before the run
StoredBefore(r, field, none) ==
    IF catalogBefore[r.table] = NullRecord THEN none
    ELSE catalogBefore[r.table][field]

\* C9: in every catalog record written by finalize, last_success_run_id and
\* last_success_at are those of the current run exactly when the run has no
\* fatal error and the table has a non-failed result; otherwise they equal
\* the values of the record stored for the table before the run.
C9_LastSuccessKeptOrSet ==
    [][pc = "finalize" =>
        \A k \in FinalizeWrites :
            LET r == io'[k].arg
            IN IF SucceededInRun(r)
               THEN /\ r.last_success_run_id = runId
                    /\ r.last_success_at = TimeOf(runId)
               ELSE /\ r.last_success_run_id
                         = StoredBefore(r, "last_success_run_id", NoRun)
                    /\ r.last_success_at = StoredBefore(r, "last_success_at", NoRun)]_vars

\* C10 as stated: for a table that did not succeed in the run the record
\* written by finalize carries last_mode forward from the stored record, and
\* last_mode is the mode of the run only when the table succeeded.
C10_ModeCarriedUnlessSuccess ==
    [][pc = "finalize" =>
        \A k \in FinalizeWrites :
            LET r == io'[k].arg
            IN IF SucceededInRun(r)
               THEN r.last_mode = ResultOf(r).mode
               ELSE r.last_mode = StoredBefore(r, "last_mode", NULL)]_vars

\* The catalog record the plan stage read for r's table (null if it read none)
ExistingOf(r) ==
    Coalesce(catalogEntry(catalogByTable, tableKey(r.schema, r.table)), NullRecord)

\* C10 amended: in every record written by finalize last_mode is the mode of
\* the table's result of the run whenever the table has one, failed results
\* included; only for a table without result is it the last_mode of the
\* catalog record the plan stage read for the table, null if it read none.
C10_ModeOfResultElseExisting ==
    [][pc = "finalize" =>
        \A k \in FinalizeWrites :
            LET r == io'[k].arg
            IN IF ResultOf(r) # Undefined
               THEN r.last_mode = ResultOf(r).mode
               ELSE r.last_mode = IF ExistingOf(r) = NullRecord THEN NULL
                                  ELSE ExistingOf(r).last_mode]_vars

\* finalize has written the record of a table whose reindex failed in this
\* run, with last_mode full, while no record says so in the stored catalog;
\* and the record of a table without result in a run whose catalog had a
\* last_mode for it
C10_Witness ==
    /\ pc = "done"
    /\ \E k \in 1..Len(io) :
        /\ io[k].op = "putCatalogRecord"
        /\ ResultOf(io[k].arg) # Undefined
        /\ ResultOf(io[k].arg).status = "failed"
        /\ io[k].arg.last_mode = "full"
        /\ StoredBefore(io[k].arg, "last_mode", NULL) # "full"

----------------------------------------------------------------------------
(* buildCatalogRecord called directly *)

\* The results a table can have in tableResults
CatalogResults == {r \in SummaryResults : r.table = "users"}

\* The record finalizeRun passes as `existing`: null, or a stored record
CatalogExisting ==
    {NullRecord}
    \cup {[StoredCatalog("users", "hash_a", th) EXCEPT
                !.last_mode = m, !.last_error = e] :
            th \in PlanHashValues, m \in {"full", "skip"},
            e \in {NULL, "earlier failure"}}

CatalogSnapshots ==
    [schema : {SourceSchema}, table : {"users"}, schemaHash : {"hash_a"},
     tableHash : PlanHashValues, rowCount : {10}, maxUpdatedAt : {NULL}]

InitCatalog ==
    /\ RunIdle
    /\ fn = "none"
    /\ args \in [snapshot : CatalogSnapshots,
                 result : {Undefined} \cup CatalogResults,
                 existing : CatalogExisting,
                 runId : {2},
                 finishedAt : {TimeOf(2)},
                 fatalError : {NULL, "fatal"}]
    /\ ret = NoCall

CallBuildCatalogRecord ==
    /\ fn = "none"
    /\ fn' = "buildCatalogRecord"
    /\ ret' = buildCatalogRecord(args.snapshot, args.result, args.existing,
                                 args.runId, args.finishedAt, args.fatalError)
    /\ UNCHANGED <<args, runVars>>

SpecCatalog == InitCatalog /\ [][CallBuildCatalogRecord]_vars

----------------------------------------------------------------------------
(* Claims about the catalog record *)

\* C11: in the catalog record built for a table last_error is the table's
\* own failure message if its result is failed, else the fatal error of the
\* run if one is set, else null: a table that succeeds in a clean run has a
\* stored last_error cleared, and the table's message wins over a fatal error.
C11_LastError ==
    fn = "buildCatalogRecord" =>
        LET failed == args.result # Undefined /\ args.result.status = "failed"
        IN /\ failed => ret.last_error = args.result.error
           /\ (~failed /\ args.fatalError # NULL) => ret.last_error = args.fatalError
           /\ (~failed /\ args.fatalError = NULL) => ret.last_error = NULL

\* A record built for a failed table while the run has a fatal error, which
\* carries the table's message
C11_Witness ==
    /\ fn = "buildCatalogRecord"
    /\ args.result # Undefined
    /\ args.result.status = "failed"
    /\ args.result.error = "table failed"
    /\ args.fatalError = "fatal"
    /\ args.existing # NullRecord
    /\ args.existing.last_error = "earlier failure"
    /\ ret.last_error = "table failed"

\* The records finalizeRun writes carry the last_error of C11
FinalizeWritesLastError ==
    [][pc = "finalize" =>
        \A k \in FinalizeWrites :
            LET r == io'[k].arg
                failed == ResultOf(r) # Undefined /\ ResultOf(r).status = "failed"
            IN r.last_error = IF failed THEN ResultOf(r).error ELSE fatalError]_vars

----------------------------------------------------------------------------
(* Claims about consecutive runs *)

\* The failure messages of onFullTable
TableErrors == {ErrReset, ErrFetch, ErrUpsert}

\* The stored record of table t says that the run which wrote it planned t
\* full and failed to reindex it
FailedFullBefore(t) ==
    /\ catalogBefore[t] # NullRecord
    /\ catalogBefore[t].last_mode = "full"
    /\ catalogBefore[t].last_error \in TableErrors

\* Table t's snapshot of this run has the hashes of its stored record
UnchangedSince(t) ==
    LET snapshot == snapshotByTable(tableSnapshots, tableKey(SourceSchema, t))
    IN /\ snapshot # Undefined
       /\ catalogBefore[t] # NullRecord
       /\ snapshot.schemaHash = catalogBefore[t].schema_hash
       /\ snapshot.tableHash = catalogBefore[t].table_hash

\* C12: a table that was planned full in a run and whose reindex failed, and
\* whose schema and snapshot are unchanged in the next run, is planned full
\* again in that run, not skip/table_hash_unchanged: a table is skipped as
\* unchanged only if it was synced successfully at the current hashes.
C12_FailedTableReplannedFull ==
    \A i \in 1..Len(tablePlans) :
        (FailedFullBefore(tablePlans[i].table) /\ UnchangedSince(tablePlans[i].table))
            => tablePlans[i].mode = "full"

----------------------------------------------------------------------------
(* Claims about failures of external calls *)

\* An external call of the run has failed
SomeCallFailed == \E k \in 1..Len(io) : ~io[k].ok

\* The state a run returns describes the failure of an external call
ReturnedStateDescribesFailure ==
    (pc = "done" /\ (SomeCallFailed \/ ~envOk)) =>
        /\ status \in {"partial_success", "failed"}
        /\ fatalError # NULL \/ summary.errors # <<>>

\* C13: no failure of an external call in any stage leaves the run as a
\* thrown exception: the run always returns a state whose status and
\* fatalError or summary.errors describe the failure.
C13_NoFailureEscapes ==
    /\ pc # "aborted"
    /\ ReturnedStateDescribesFailure

----------------------------------------------------------------------------
(* buildQueue called directly *)

\* Bounds of the inputs of buildQueue
MaxPoolRows == 3
MaxThreshold == 2
MaxChunkSize == 2

\* The tables given to the estimator
PoolTableInfos == [schema : {SourceSchema}, table : Tables]

\* rowCounts: a row count is known for some of the tables
PoolRowCounts ==
    UNION {[{tableKey(SourceSchema, t) : t \in known} -> 0..MaxPoolRows] :
            known \in SUBSET Tables}

InitQueue ==
    /\ RunIdle
    /\ fn = "none"
    /\ args \in [tables : DistinctSeqs(PoolTableInfos),
                 rowCounts : PoolRowCounts,
                 largeTableThreshold : 0..MaxThreshold,
                 chunkSize : 0..MaxChunkSize]
    /\ ret = NoCall

CallBuildQueue ==
    /\ fn = "none"
    /\ fn' = "buildQueue"
    /\ ret' = buildQueue(args.tables, args.rowCounts, args.largeTableThreshold,
                         args.chunkSize)
    /\ UNCHANGED <<args, runVars>>

SpecQueue == InitQueue /\ [][CallBuildQueue]_vars

----------------------------------------------------------------------------
(* Claims about the work queue *)

\* The positions of the queue that hold an item of the table
ItemsOfTable(q, tableInfo) == {k \in 1..Len(q) : q[k].tableInfo = tableInfo}

\* n is the least number of chunks of size c that hold r rows
IsCeilDiv(n, r, c) == n * c >= r /\ (n = 0 \/ (n - 1) * c < r)

----------------------------------------------------------------------------
(* estimate_worker.ts: what a worker computes for one request *)

\* countTokens of the page content of the r-th row of a table
RowTokens(r) == r

\* countTokens(pageContents) for the k rows that follow row number offset
RECURSIVE countTokens(_, _)
countTokens(offset, k) ==
    IF k = 0 THEN 0 ELSE RowTokens(offset + k) + countTokens(offset, k - 1)

\* fetchAndTransform asking for batchSize rows whatever is left of rowLimit
RECURSIVE fetchAndTransform_FullBatches(_, _, _, _, _, _)
fetchAndTransform_FullBatches(n, batchSize, offset, fetched, limited, rowLimit) ==
    LET limit == batchSize
        rows == RowsReturned(n, limit, offset)
    IN IF limit <= 0 THEN fetched
       ELSE IF rows = 0 THEN fetched
       ELSE IF limited /\ fetched + rows >= rowLimit THEN fetched + rows
       ELSE fetchAndTransform_FullBatches(n, batchSize, offset + rows,
                                          fetched + rows, limited, rowLimit)

\* fetchAndTransform on a table of n rows: the number of page contents it
\* returns.  limited is FALSE for rowLimit = null.
RECURSIVE fetchAndTransform(_, _, _, _, _, _)
fetchAndTransform(n, batchSize, offset, fetched, limited, rowLimit) ==
    LET limit == IF limited THEN Min(batchSize, rowLimit - fetched) ELSE batchSize
        rows == RowsReturned(n, limit, offset)
    IN IF limit <= 0 THEN fetched
       ELSE IF rows = 0 THEN fetched
       ELSE IF limited /\ fetched + rows >= rowLimit THEN fetched + rows
       ELSE fetchAndTransform(n, batchSize, offset + rows, fetched + rows,
                              limited, rowLimit)

\* processTable(payload) on a table of n rows
processTable(tableInfo, n, batchSize) ==
    LET rowCount == fetchAndTransform(n, batchSize, 0, 0, FALSE, 0)
    IN [schema |-> tableInfo.schema, table |-> tableInfo.table,
        rowCount |-> rowCount, tokenCount |-> countTokens(0, rowCount)]

\* processChunk(payload) on a table of n rows
processChunk(item, n, batchSize) ==
    LET rowCount == fetchAndTransform(n, batchSize, item.offsetStart, 0, TRUE,
                                      item.rowLimit)
    IN [schema |-> item.tableInfo.schema, table |-> item.tableInfo.table,
        chunkId |-> item.chunkId,
        rowCount |-> rowCount,
        tokenCount |-> countTokens(item.offsetStart, rowCount)]

----------------------------------------------------------------------------
(* estimate.ts: the closures of processTablesInParallel *)

ShutdownRequest == [type |-> "shutdown"]

\* The WorkerRequest sendNextFromBatch posts for an item
requestOf(item) ==
    [type |-> IF item.kind = "table" THEN "process" ELSE "process-chunk",
     item |-> item]

\* sendNextFromBatch with a batch that is not empty: the head of the batch
\* is posted
postFromBatch(q, b) ==
    [queue |-> q, batch |-> Tail(b), post |-> requestOf(Head(b))]

\* dispatchBatch: up to tablesPerBatch items leave the head of the queue;
\* an empty batch means shutdown
dispatchBatch(q, tablesPerBatch) ==
    LET k == Min(tablesPerBatch, Len(q))
        taken == SubSeq(q, 1, k)
        rest == SubSeq(q, k + 1, Len(q))
    IN IF taken = <<>>
       THEN [queue |-> q, batch |-> <<>>, post |-> ShutdownRequest]
       ELSE postFromBatch(rest, taken)

\* sendNextFromBatch, were it to take a new batch for every item
sendNextFromBatch_NewBatchEveryItem(q, b, tablesPerBatch) ==
    dispatchBatch(q, tablesPerBatch)

\* sendNextFromBatch
sendNextFromBatch(q, b, tablesPerBatch) ==
    IF b = <<>> THEN dispatchBatch(q, tablesPerBatch) ELSE postFromBatch(q, b)

\* The sum of field f over the values of a received map
RECURSIVE SumReceived(_, _)
SumReceived(received, f) ==
    IF DOMAIN received = {} THEN 0
    ELSE LET id == CHOOSE x \in DOMAIN received : TRUE
             others == [x \in DOMAIN received \ {id} |-> received[x]]
         IN received[id][f] + SumReceived(others, f)

\* A map with key k set to value v
MapSet(m, k, v) == [x \in DOMAIN m \cup {k} |-> IF x = k THEN v ELSE m[x]]

\* A map without key k
MapDelete(m, k) == [x \in DOMAIN m \ {k} |-> m[x]]

NoEstimate == [isNone |-> TRUE]

\* handleChunkResult, were it to emit on the first chunk-result of a table
handleChunkResult_EmitOnFirst(aggs, counts, data) ==
    [aggregators |-> MapDelete(aggs, tableKey(data.schema, data.table)),
     emit |-> [schema |-> data.schema, table |-> data.table,
               rowCount |-> data.rowCount, tokenCount |-> data.tokenCount]]

\* handleChunkResult: the aggregators after it, and the estimate it emits
handleChunkResult(aggs, counts, data) ==
    LET key == tableKey(data.schema, data.table)
        totalChunks == IF key \in DOMAIN counts THEN counts[key] ELSE 1
        agg == IF key \in DOMAIN aggs THEN aggs[key]
               ELSE [schema |-> data.schema, table |-> data.table,
                     totalChunks |-> totalChunks, received |-> <<>>]
        received == MapSet(agg.received, data.chunkId,
                           [rowCount |-> data.rowCount,
                            tokenCount |-> data.tokenCount])
    IN IF Cardinality(DOMAIN received) = agg.totalChunks
       THEN [aggregators |-> MapDelete(aggs, key),
             emit |-> [schema |-> agg.schema, table |-> agg.table,
                       rowCount |-> SumReceived(received, "rowCount"),
                       tokenCount |-> SumReceived(received, "tokenCount")]]
       ELSE [aggregators |-> MapSet(aggs, key, [agg EXCEPT !.received = received]),
             emit |-> NoEstimate]

\* onWorkerDone, given the workerErrors of the moment: the promise after it
onWorkerDone(errors) ==
    /\ aliveWorkers' = aliveWorkers - 1
    /\ promise' =
        IF aliveWorkers - 1 # 0 THEN promise
        ELSE IF promise.state # "pending"
             THEN [promise EXCEPT !.calls = @ + 1]
             ELSE IF estimates = <<>> /\ errors # <<>>
                  THEN [state |-> "rejected", value |-> errors, calls |-> 1]
                  ELSE [state |-> "resolved", value |-> estimates, calls |-> 1]

----------------------------------------------------------------------------
(* processTablesInParallel as a state machine: the main thread handles one *)
(* message or event at a time, every worker handles one request at a time  *)

\* Bounds of the pool
MaxThreads == 2
MaxTablesPerBatch == 2
MaxCrashes == 1

\* The message of an error thrown while an item is processed
ErrItem == "item: query failed"
\* The uncaught error of a worker thread
ErrCrash == "worker: uncaught exception"

Workers == 1..Len(worker)

\* The 'error' and 'exit' events of a worker thread, as the main thread
\* receives them
ErrorEvent == [type |-> "worker-error", error |-> ErrCrash]
ExitEvent == [type |-> "worker-exit"]

\* The options of a call and the actual row count of every table; the row
\* counts passed are those of the tables, as estimateCost passes them
PoolOptions ==
    {o \in [tables : DistinctSeqs(PoolTableInfos) \ {<<>>},
            rows : [Tables -> 0..MaxPoolRows],
            maxThreads : 1..MaxThreads,
            tablesPerBatch : 1..MaxTablesPerBatch,
            largeTableThreshold : {0, MaxThreshold},
            chunkSize : {MaxChunkSize},
            batchSize : {BatchSize}] :
        \A t \in Tables :
            (\A i \in 1..Len(o.tables) : o.tables[i].table # t) => o.rows[t] = 0}

\* rowCounts as estimateCost builds it: the row count of every table given
rowCountsOf(o) ==
    [key \in {tableKey(o.tables[i].schema, o.tables[i].table) : i \in 1..Len(o.tables)}
        |-> o.rows[key[2]]]

\* The state when processTablesInParallel has returned its promise: the
\* queue is built and workerCount workers are spawned
InitPool ==
    /\ pc = "idle" /\ runId = 1 /\ fatalError = NULL /\ status = "running"
    /\ tableInfos = <<>> /\ tableSnapshots = <<>> /\ tablePlans = <<>>
    /\ tableResults = <<>> /\ catalogByTable = <<>>
    /\ summary = defaultRunSummary
    /\ source = [t \in Tables |-> [pk |-> TRUE, schema |-> "columns_v1", rows |-> 0]]
    /\ catalogStore = [t \in Tables |-> NullRecord]
    /\ runStore = NullRecord
    /\ index = [t \in Tables |-> 0]
    /\ envOk = TRUE
    /\ io = <<>> /\ stages = <<>>
    /\ catalogBefore = catalogStore
    /\ CallIdle
    /\ opts \in PoolOptions
    /\ LET built == buildQueue(opts.tables, rowCountsOf(opts),
                               opts.largeTableThreshold, opts.chunkSize)
           workerCount == Min(opts.maxThreads,
                              CeilDiv(Len(built.queue), opts.tablesPerBatch))
       IN /\ queue = built.queue
          /\ chunkCounts = built.chunkCounts
          /\ aliveWorkers = workerCount
          /\ worker = [w \in 1..workerCount |-> "booting"]
          /\ batch = [w \in 1..workerCount |-> <<>>]
          /\ toWorker = [w \in 1..workerCount |-> <<>>]
          /\ toMain = [w \in 1..workerCount |-> <<>>]
          /\ sent = [w \in 1..workerCount |-> <<>>]
    /\ estimates = <<>>
    /\ aggregators = <<>>
    /\ workerErrors = <<>>
    /\ promise = [state |-> "pending", calls |-> 0]
    /\ completed = <<>>
    /\ errored = <<>>
    /\ chunkResults = {}

\* A worker may crash now: the model allows MaxCrashes crashes in a call
MayCrash == Cardinality({v \in Workers : worker[v] = "crashed"}) < MaxCrashes

\* The worker thread dies of an uncaught error: the main thread will get its
\* 'error' event and then its 'exit' event
Crash(w) ==
    /\ MayCrash
    /\ worker' = [worker EXCEPT ![w] = "crashed"]
    /\ toMain' = [toMain EXCEPT ![w] = @ \o <<ErrorEvent, ExitEvent>>]

\* estimate_worker.ts line 247: the worker has loaded and posts ready
WorkerReady ==
    \E w \in Workers :
        /\ worker[w] = "booting"
        /\ \/ /\ worker' = [worker EXCEPT ![w] = "running"]
              /\ toMain' = [toMain EXCEPT ![w] = Append(@, [type |-> "ready"])]
           \/ Crash(w)
        /\ UNCHANGED <<opts, queue, chunkCounts, estimates, aggregators,
                       aliveWorkers, workerErrors, promise, batch, toWorker,
                       completed, errored, chunkResults, sent>>
        /\ UNCHANGED <<stateVars, worldVars, callVars>>

\* port.on("message") of the worker for a process or process-chunk request:
\* it posts the result, or the error it caught, or the thread dies
WorkerProcess ==
    \E w \in Workers :
        /\ worker[w] = "running"
        /\ toWorker[w] # <<>>
        /\ Head(toWorker[w]).type \in {"process", "process-chunk"}
        /\ toWorker' = [toWorker EXCEPT ![w] = Tail(@)]
        /\ LET item == Head(toWorker[w]).item
               n == opts.rows[item.tableInfo.table]
               answer ==
                   IF item.kind = "table"
                   THEN [type |-> "result",
                         data |-> processTable(item.tableInfo, n, opts.batchSize)]
                   ELSE [type |-> "chunk-result",
                         data |-> processChunk(item, n, opts.batchSize)]
               failure == [type |-> "error", schema |-> item.tableInfo.schema,
                           table |-> item.tableInfo.table, error |-> ErrItem]
           IN \/ /\ toMain' = [toMain EXCEPT ![w] = Append(@, answer)]
                 /\ UNCHANGED worker
              \/ /\ toMain' = [toMain EXCEPT ![w] = Append(@, failure)]
                 /\ UNCHANGED worker
              \/ Crash(w)
        /\ UNCHANGED <<opts, queue, chunkCounts, estimates, aggregators,
                       aliveWorkers, workerErrors, promise, batch,
                       completed, errored, chunkResults, sent>>
        /\ UNCHANGED <<stateVars, worldVars, callVars>>

\* The worker has created its pg pool: it has been sent an item
HasPool(w) == \E k \in 1..Len(sent[w]) : sent[w][k].type # "shutdown"

\* port.on("message") of the worker for shutdown: pool.end(), process.exit;
\* the thread dies of an unhandled rejection if pool.end() rejects
WorkerShutdown ==
    \E w \in Workers :
        /\ worker[w] = "running"
        /\ toWorker[w] # <<>>
        /\ Head(toWorker[w]).type = "shutdown"
        /\ toWorker' = [toWorker EXCEPT ![w] = Tail(@)]
        /\ \/ /\ worker' = [worker EXCEPT ![w] = "exited"]
              /\ toMain' = [toMain EXCEPT ![w] = Append(@, ExitEvent)]
           \/ HasPool(w) /\ Crash(w)
        /\ UNCHANGED <<opts, queue, chunkCounts, estimates, aggregators,
                       aliveWorkers, workerErrors, promise, batch,
                       completed, errored, chunkResults, sent>>
        /\ UNCHANGED <<stateVars, worldVars, callVars>>

\* worker.postMessage(msg) after sendNextFromBatch or dispatchBatch
Post(w, next) ==
    /\ queue' = next.queue
    /\ batch' = [batch EXCEPT ![w] = next.batch]
    /\ toWorker' = [toWorker EXCEPT ![w] = Append(@, next.post)]
    /\ sent' = [sent EXCEPT ![w] = Append(@, next.post)]

\* worker.on("message"), case "ready"
MainReady ==
    \E w \in Workers :
        /\ toMain[w] # <<>>
        /\ Head(toMain[w]).type = "ready"
        /\ toMain' = [toMain EXCEPT ![w] = Tail(@)]
        /\ Post(w, dispatchBatch(queue, opts.tablesPerBatch))
        /\ UNCHANGED <<opts, chunkCounts, estimates, aggregators, aliveWorkers,
                       workerErrors, promise, worker, completed, errored, chunkResults>>
        /\ UNCHANGED <<stateVars, worldVars, callVars>>

\* worker.on("message"), case "result"
MainResult ==
    \E w \in Workers :
        /\ toMain[w] # <<>>
        /\ Head(toMain[w]).type = "result"
        /\ toMain' = [toMain EXCEPT ![w] = Tail(@)]
        /\ estimates' = Append(estimates, Head(toMain[w]).data)
        /\ completed' = Append(completed, Head(toMain[w]).data)
        /\ Post(w, sendNextFromBatch(queue, batch[w], opts.tablesPerBatch))
        /\ UNCHANGED <<opts, chunkCounts, aggregators, aliveWorkers,
                       workerErrors, promise, worker, errored, chunkResults>>
        /\ UNCHANGED <<stateVars, worldVars, callVars>>

\* worker.on("message"), case "chunk-result"
MainChunkResult ==
    \E w \in Workers :
        /\ toMain[w] # <<>>
        /\ Head(toMain[w]).type = "chunk-result"
        /\ toMain' = [toMain EXCEPT ![w] = Tail(@)]
        /\ LET handled == handleChunkResult(aggregators, chunkCounts,
                                            Head(toMain[w]).data)
           IN /\ aggregators' = handled.aggregators
              /\ IF handled.emit = NoEstimate
                 THEN UNCHANGED <<estimates, completed>>
                 ELSE /\ estimates' = Append(estimates, handled.emit)
                      /\ completed' = Append(completed, handled.emit)
        /\ Post(w, sendNextFromBatch(queue, batch[w], opts.tablesPerBatch))
        /\ UNCHANGED <<opts, chunkCounts, aliveWorkers, workerErrors, promise,
                       worker, errored>>
        /\ chunkResults' = chunkResults \cup {Head(toMain[w]).data.chunkId}
        /\ UNCHANGED <<stateVars, worldVars, callVars>>

\* worker.on("message"), case "error", were it to retire the worker
MainItemError_RetiresWorker ==
    \E w \in Workers :
        /\ toMain[w] # <<>>
        /\ Head(toMain[w]).type = "error"
        /\ toMain' = [toMain EXCEPT ![w] = Tail(@)]
        /\ errored' = Append(errored, [schema |-> Head(toMain[w]).schema,
                                       table |-> Head(toMain[w]).table,
                                       error |-> Head(toMain[w]).error])
        /\ Post(w, [queue |-> queue, batch |-> batch[w], post |-> ShutdownRequest])
        /\ UNCHANGED <<opts, chunkCounts, estimates, aggregators, aliveWorkers,
                       workerErrors, promise, worker, completed,
                       chunkResults>>
        /\ UNCHANGED <<stateVars, worldVars, callVars>>

\* worker.on("message"), case "error"
MainItemError ==
    \E w \in Workers :
        /\ toMain[w] # <<>>
        /\ Head(toMain[w]).type = "error"
        /\ toMain' = [toMain EXCEPT ![w] = Tail(@)]
        /\ errored' = Append(errored, [schema |-> Head(toMain[w]).schema,
                                       table |-> Head(toMain[w]).table,
                                       error |-> Head(toMain[w]).error])
        /\ Post(w, sendNextFromBatch(queue, batch[w], opts.tablesPerBatch))
        /\ UNCHANGED <<opts, chunkCounts, estimates, aggregators, aliveWorkers,
                       workerErrors, promise, worker, completed,
                       chunkResults>>
        /\ UNCHANGED <<stateVars, worldVars, callVars>>

\* worker.on("error")
MainWorkerError ==
    \E w \in Workers :
        /\ toMain[w] # <<>>
        /\ Head(toMain[w]).type = "worker-error"
        /\ toMain' = [toMain EXCEPT ![w] = Tail(@)]
        /\ workerErrors' = Append(workerErrors, Head(toMain[w]).error)
        /\ onWorkerDone(Append(workerErrors, Head(toMain[w]).error))
        /\ UNCHANGED <<opts, queue, chunkCounts, estimates, aggregators, worker,
                       batch, toWorker, completed, errored, chunkResults, sent>>
        /\ UNCHANGED <<stateVars, worldVars, callVars>>

\* worker.on("exit")
MainWorkerExit ==
    \E w \in Workers :
        /\ toMain[w] # <<>>
        /\ Head(toMain[w]).type = "worker-exit"
        /\ toMain' = [toMain EXCEPT ![w] = Tail(@)]
        /\ onWorkerDone(workerErrors)
        /\ UNCHANGED <<opts, queue, chunkCounts, estimates, aggregators,
                       workerErrors, worker, batch, toWorker, completed,
                       errored, chunkResults, sent>>
        /\ UNCHANGED <<stateVars, worldVars, callVars>>

NextPool ==
    \/ WorkerReady
    \/ WorkerProcess
    \/ WorkerShutdown
    \/ MainReady
    \/ MainResult
    \/ MainChunkResult
    \/ MainItemError
    \/ MainWorkerError
    \/ MainWorkerExit

SpecPool == InitPool /\ [][NextPool]_vars

----------------------------------------------------------------------------
(* Claims about the dispatch protocol *)

\* The types of the messages by which a worker answers an item
AnswerTypes == {"result", "chunk-result", "error"}

\* The item requests in a sequence of messages
ItemRequests(msgs) == SelectSeq(msgs, LAMBDA m : m.type # "shutdown")

\* The answers in a sequence of messages
Answers(msgs) == SelectSeq(msgs, LAMBDA m : m.type \in AnswerTypes)

\* At most one item of every worker is in flight: sent and not yet
\* processed, or answered with the answer not yet received
OneItemInFlight ==
    \A w \in Workers :
        Len(ItemRequests(toWorker[w])) + Len(Answers(toMain[w])) <= 1

\* A worker that was sent shutdown was sent nothing after it
ShutdownIsLast ==
    \A w \in Workers :
        \A k \in 1..Len(sent[w]) :
            sent[w][k].type = "shutdown" => k = Len(sent[w])

\* Something is posted to worker w only while a message of that worker is
\* received: ready for the first post, an answer for every later one
PostAnswersWorker(w) ==
    sent'[w] # sent[w] =>
        /\ toMain[w] # <<>>
        /\ toMain'[w] = Tail(toMain[w])
        /\ IF sent[w] = <<>>
           THEN Head(toMain[w]).type = "ready"
           ELSE Head(toMain[w]).type \in AnswerTypes
        /\ Len(sent'[w]) = Len(sent[w]) + 1

\* The post of a step to worker w
Posted(w) == sent'[w][Len(sent'[w])]

\* Worker w is sent the next item of its batch while it has one; with its
\* batch exhausted it takes the first items of the queue, tablesPerBatch of
\* them or all of them if there are fewer, and is sent the first; it is
\* sent shutdown only with its batch exhausted and the queue empty
PostFollowsBatch(w) ==
    sent'[w] # sent[w] =>
        IF batch[w] # <<>>
        THEN /\ Posted(w) = requestOf(Head(batch[w]))
             /\ batch'[w] = Tail(batch[w])
             /\ queue' = queue
        ELSE IF queue = <<>>
        THEN Posted(w) = ShutdownRequest /\ batch'[w] = <<>> /\ queue' = queue
        ELSE LET k == Min(opts.tablesPerBatch, Len(queue))
             IN /\ k <= opts.tablesPerBatch
                /\ Posted(w) = requestOf(queue[1])
                /\ <<queue[1]>> \o batch'[w] = SubSeq(queue, 1, k)
                /\ queue' = SubSeq(queue, k + 1, Len(queue))

\* The queue and the batches change only with a post
OnlyPostsTakeItems ==
    /\ queue' # queue => \E w \in Workers : sent'[w] # sent[w]
    /\ \A w \in Workers : batch'[w] # batch[w] => sent'[w] # sent[w]

\* C15: a worker is sent work only after its ready message was received;
\* it is handed batches of at most tablesPerBatch items taken from the head
\* of the shared queue; it has at most one item in flight, the next one
\* being sent only when the answer to the previous one is received; it
\* takes a new batch only when its own batch is exhausted; it is sent
\* shutdown only when the queue is empty, and nothing after it.
C15_DispatchProtocol ==
    [][/\ \A w \in Workers : PostAnswersWorker(w) /\ PostFollowsBatch(w)
       /\ OnlyPostsTakeItems
       /\ OneItemInFlight'
       /\ ShutdownIsLast']_vars

\* A worker was handed a batch of two items, sent them one after the
\* other, and then sent shutdown, while another worker was sent an item too
C15_Witness ==
    /\ opts.tablesPerBatch = 2
    /\ \E w, v \in Workers :
        /\ w # v
        /\ Len(sent[w]) = 3
        /\ sent[w][1].type = "process" /\ sent[w][2].type = "process-chunk"
        /\ sent[w][3].type = "shutdown"
        /\ ItemRequests(sent[v]) # <<>>

----------------------------------------------------------------------------
(* Claims about chunk aggregation *)

\* The chunkIds of the chunks of the table of key
ChunkIdsOf(key) == {<<key, i>> : i \in 0..(chunkCounts[key] - 1)}

\* The entries of a sequence of estimates for the table of key
EstimatesOf(seq, key) ==
    SelectSeq(seq, LAMBDA e : tableKey(e.schema, e.table) = key)

\* C16: for a table split into N chunks, onTableComplete has fired once if
\* the chunk-results of all N chunks were received, in whatever order and
\* from whatever workers, and has not fired otherwise; the estimate it fired
\* with has the sums of the rows and tokens of the chunks, it is one entry
\* of the results, and the aggregator entry of the table is removed.
C16_ChunkAggregation ==
    \A key \in DOMAIN chunkCounts :
        LET done == EstimatesOf(completed, key)
            n == opts.rows[key[2]]
        IN IF ChunkIdsOf(key) \subseteq chunkResults /\ chunkCounts[key] > 0
           THEN /\ Len(done) = 1
                /\ done[1].rowCount = n
                /\ done[1].tokenCount = countTokens(0, n)
                /\ EstimatesOf(estimates, key) = done
                /\ key \notin DOMAIN aggregators
           ELSE /\ done = <<>>
                /\ EstimatesOf(estimates, key) = <<>>
                /\ key \in DOMAIN aggregators <=>
                       ChunkIdsOf(key) \cap chunkResults # {}
                /\ key \in DOMAIN aggregators =>
                       DOMAIN aggregators[key].received =
                           ChunkIdsOf(key) \cap chunkResults

\* The two chunks of a table of three rows, the second one partly filled,
\* were sent to different workers, and the table is complete
C16_Witness ==
    /\ \E key \in DOMAIN chunkCounts :
        /\ chunkCounts[key] = 2
        /\ opts.rows[key[2]] = 3
        /\ EstimatesOf(completed, key) # <<>>
        /\ \E w, v \in Workers :
            /\ w # v
            /\ \E k \in 1..Len(sent[w]) :
                sent[w][k].type = "process-chunk"
                    /\ sent[w][k].item.chunkId = <<key, 0>>
            /\ \E k \in 1..Len(sent[v]) :
                sent[v][k].type = "process-chunk"
                    /\ sent[v][k].item.chunkId = <<key, 1>>

----------------------------------------------------------------------------
(* Claims about failures of items and of workers *)

\* The promise of processTablesInParallel is resolved or rejected
Settled == promise.state # "pending"

\* No worker thread has died of an uncaught error
NoCrash == \A w \in Workers : worker[w] # "crashed"

\* Every table of the call is one whole-table item
WholeTablesOnly == chunkCounts = <<>> /\ Len(opts.tables) > 0

\* The error message of an item of worker w is received: onTableError is
\* called with it and the worker is sent what its batch and the queue have
\* next
ErrorReportedAndWorkerGoesOn(w) ==
    (/\ toMain[w] # <<>>
     /\ Head(toMain[w]).type = "error"
     /\ toMain'[w] = Tail(toMain[w]))
    => /\ errored' = Append(errored, [schema |-> Head(toMain[w]).schema,
                                      table |-> Head(toMain[w]).table,
                                      error |-> Head(toMain[w]).error])
       /\ sent'[w] # sent[w]
       /\ PostFollowsBatch(w)
       /\ Posted(w).type = "shutdown" => queue = <<>> /\ batch[w] = <<>>

\* One of the M whole-table items has failed, no worker has crashed and the
\* promise is settled: it is resolved with the M-1 estimates of the other
\* tables, the ones onTableComplete was called with
OtherTablesResolved ==
    (Settled /\ NoCrash /\ WholeTablesOnly /\ Len(errored) = 1)
    => /\ promise.state = "resolved"
       /\ promise.value = completed
       /\ Len(completed) = Len(opts.tables) - 1
       /\ {completed[k].table : k \in 1..Len(completed)}
              = {opts.tables[i].table : i \in 1..Len(opts.tables)}
                    \ {errored[1].table}
       /\ \A k \in 1..Len(completed) :
              completed[k] = processTable([schema |-> completed[k].schema,
                                           table |-> completed[k].table],
                                          opts.rows[completed[k].table],
                                          opts.batchSize)

\* C17: the error message of a failed item makes the main thread call
\* onTableError and send the same worker its next item; if exactly one of M
\* whole-table items fails and no worker crashes, onTableComplete fires for
\* each of the other M-1 tables and the promise resolves with exactly those
\* M-1 results.
C17_ItemFaultTolerance ==
    [][/\ \A w \in Workers : ErrorReportedAndWorkerGoesOn(w)
       /\ OtherTablesResolved']_vars

\* One of two whole-table items failed, its worker was sent the other item
\* next, and the promise is resolved with the estimate of the other table
C17_Witness ==
    /\ Settled /\ NoCrash /\ WholeTablesOnly
    /\ Len(opts.tables) = 2
    /\ Len(errored) = 1
    /\ Len(completed) = 1
    /\ \E w \in Workers :
        /\ Len(sent[w]) = 3
        /\ sent[w][1].item.tableInfo.table = errored[1].table
        /\ sent[w][2].item.tableInfo.table = completed[1].table

----------------------------------------------------------------------------
(* Claims about the outcome of processTablesInParallel *)

\* C18: the step that settles the promise rejects it if and only if no
\* table result was produced and at least one error occurred, the error of
\* an item or the crash of a worker; otherwise it resolves it with the
\* results collected so far.  A call in which every item fails with an
\* item-level error and nothing succeeds rejects.
C18_RejectsIffNoResultAndError ==
    [][(~Settled /\ Settled') =>
          IF estimates' = <<>> /\ (errored' # <<>> \/ workerErrors' # <<>>)
          THEN promise'.state = "rejected"
          ELSE promise'.state = "resolved" /\ promise'.value = estimates']_vars

\* The main thread has handled the exit of worker w
Exited(w) ==
    /\ worker[w] \in {"exited", "crashed"}
    /\ \A k \in 1..Len(toMain[w]) : toMain[w][k].type # "worker-exit"

\* C19: the count of alive workers is the number of spawned workers that
\* have not yet exited and is never below zero, and the promise is not
\* settled before every worker has exited, a crashed worker counting as the
\* exit of that one worker.
C19_CrashIsOneExit ==
    /\ aliveWorkers = Cardinality({w \in Workers : ~Exited(w)})
    /\ aliveWorkers >= 0
    /\ Settled => \A w \in Workers : Exited(w)

----------------------------------------------------------------------------
(* transform.ts: from a row to a document *)

\* The data types of the model that contain one of TEXTUAL_DATA_TYPES once
\* in lower case
TextualDataTypes == {"text", "character varying", "JSONB"}
OtherDataTypes == {"integer", "timestamp with time zone"}

\* isTextualColumn
isTextualColumn(dataType) == dataType \in TextualDataTypes

\* toLowerCase of the column names of the model
toLowerCase(name) ==
    CASE name = "SECRET" -> "secret"
      [] name = "Name" -> "name"
      [] OTHER -> name

\* normalizeValue
normalizeValue(value) ==
    CASE value.t \in {"null", "undefined"} -> NoText
      [] value.t = "date" -> value.iso
      [] value.t \in {"object", "array"} -> stableStringify(value)
      [] value.t = "string" -> value.s
      [] value.t \in {"number", "bigint"} -> NumberText(value.n)
      [] value.t = "boolean" -> IF value.b THEN <<"true">> ELSE <<"false">>

\* columnName in row
HasColumn(row, columnName) == \E i \in 1..Len(row) : row[i].key = columnName

\* row[columnName]
RowGet(row, columnName) ==
    IF HasColumn(row, columnName)
    THEN row[CHOOSE i \in 1..Len(row) : row[i].key = columnName].value
    ELSE JsUndefined

\* selectPageContentColumns
selectPageContentColumns(tableInfo, textColumnsMode, excludedColumns) ==
    LET kept == SelectSeq(tableInfo.columns,
                    LAMBDA column :
                        toLowerCase(column.columnName) \notin excludedColumns)
        textual == SelectSeq(kept,
                    LAMBDA column :
                        textColumnsMode = "all" \/ isTextualColumn(column.dataType))
    IN [i \in 1..Len(textual) |-> textual[i].columnName]

\* lines.join("\n")
RECURSIVE JoinLines(_)
JoinLines(lines) ==
    IF lines = <<>> THEN NoText
    ELSE Head(lines)
            \o (IF Tail(lines) = <<>> THEN <<>> ELSE <<"\n">>)
            \o JoinLines(Tail(lines))

\* The line of createPageContent for a column
LineOf(row, columnName) ==
    LET normalized == normalizeValue(RowGet(row, columnName))
    IN IF Len(normalized) > 0 THEN <<columnName, ": ">> \o normalized ELSE NoText

\* createPageContent without its last return
createPageContent_NoFallback(row, tableInfo, textColumnsMode, excludedColumns) ==
    LET selectedColumns ==
            selectPageContentColumns(tableInfo, textColumnsMode, excludedColumns)
        mapped == [i \in 1..Len(selectedColumns) |-> LineOf(row, selectedColumns[i])]
        lines == SelectSeq(mapped, LAMBDA line : Len(line) > 0)
    IN JoinLines(lines)

\* createPageContent
createPageContent(row, tableInfo, textColumnsMode, excludedColumns) ==
    LET selectedColumns ==
            selectPageContentColumns(tableInfo, textColumnsMode, excludedColumns)
        mapped == [i \in 1..Len(selectedColumns) |-> LineOf(row, selectedColumns[i])]
        lines == SelectSeq(mapped, LAMBDA line : Len(line) > 0)
    IN IF Len(lines) > 0
       THEN JoinLines(lines)
       ELSE <<"[", tableInfo.schema, ".", tableInfo.table, "]", " ">>
                \o stableStringify(JsObject(row))

\* extractPrimaryKey, were it to reject a primary-key column that is null
extractPrimaryKey_NullFails(row, tableInfo) ==
    LET missing == {i \in 1..Len(tableInfo.pkColumns) :
                        \/ ~HasColumn(row, tableInfo.pkColumns[i])
                        \/ RowGet(row, tableInfo.pkColumns[i]) = JsNull}
    IN IF missing # {}
       THEN [threw |-> TRUE,
             error |-> <<"Missing PK column ",
                         tableInfo.pkColumns[CHOOSE i \in missing :
                                                \A j \in missing : i <= j],
                         " in ", tableInfo.schema, ".", tableInfo.table>>]
       ELSE [threw |-> FALSE,
             value |-> [i \in 1..Len(tableInfo.pkColumns) |->
                           [key |-> tableInfo.pkColumns[i],
                            value |-> RowGet(row, tableInfo.pkColumns[i])]]]

\* extractPrimaryKey, were it to take every column of the row for the key
extractPrimaryKey_WholeRow(row, tableInfo) ==
    LET missing == {i \in 1..Len(tableInfo.pkColumns) :
                        ~HasColumn(row, tableInfo.pkColumns[i])}
    IN IF missing # {}
       THEN [threw |-> TRUE,
             error |-> <<"Missing PK column ",
                         tableInfo.pkColumns[CHOOSE i \in missing :
                                                \A j \in missing : i <= j],
                         " in ", tableInfo.schema, ".", tableInfo.table>>]
       ELSE [threw |-> FALSE, value |-> row]

\* extractPrimaryKey: the primary key, or the error thrown for the first
\* primary-key column the row does not have
extractPrimaryKey(row, tableInfo) ==
    LET missing == {i \in 1..Len(tableInfo.pkColumns) :
                        ~HasColumn(row, tableInfo.pkColumns[i])}
    IN IF missing # {}
       THEN [threw |-> TRUE,
             error |-> <<"Missing PK column ",
                         tableInfo.pkColumns[CHOOSE i \in missing :
                                                \A j \in missing : i <= j],
                         " in ", tableInfo.schema, ".", tableInfo.table>>]
       ELSE [threw |-> FALSE,
             value |-> [i \in 1..Len(tableInfo.pkColumns) |->
                           [key |-> tableInfo.pkColumns[i],
                            value |-> RowGet(row, tableInfo.pkColumns[i])]]]

\* buildDocId
buildDocId(schema, table, primaryKey) ==
    sha256Hex(<<schema, ".", table, "|">> \o stableStringify(JsObject(primaryKey)))

\* transformRowToDocument
transformRowToDocument(row, tableInfo, run, textColumnsMode, excludedColumns) ==
    LET excluded == {toLowerCase(excludedColumns[i]) : i \in 1..Len(excludedColumns)}
        primaryKey == extractPrimaryKey(row, tableInfo)
        normalizedUpdatedAt ==
            IF tableInfo.updatedAtColumn = NULL THEN NoText
            ELSE normalizeValue(RowGet(row, tableInfo.updatedAtColumn))
    IN IF primaryKey.threw THEN primaryKey
       ELSE [threw |-> FALSE,
             docId |-> buildDocId(tableInfo.schema, tableInfo.table, primaryKey.value),
             document |->
                [pageContent |-> createPageContent(row, tableInfo, textColumnsMode,
                                                   excluded),
                 metadata |->
                    [schema |-> tableInfo.schema,
                     table |-> tableInfo.table,
                     pk |-> primaryKey.value,
                     pk_hash |-> sha256Hex(stableStringify(JsObject(primaryKey.value))),
                     updated_at |-> IF normalizedUpdatedAt = NoText
                                    THEN <<NULL>> ELSE normalizedUpdatedAt,
                     row_hash |-> computeRowHash(row),
                     run_id |-> run]]]

----------------------------------------------------------------------------
(* transformRowToDocument called on the rows and tables of a bounded set *)

\* The number of columns of a row
MaxRowColumns == 2

\* The values of the columns of a row
RowValues ==
    {JsNull, JsString(NoText), JsString(<<"Alice">>), JsNumber(12),
     JsBoolean(FALSE), JsDate(<<"2024-01-01T00:00:00.000Z">>),
     JsObject(<<[key |-> "name", value |-> JsUndefined],
                [key |-> "id", value |-> JsBigInt(7)]>>),
     JsArray(<<>>)}

\* The rows: up to MaxRowColumns columns in any order
RowKeys == {"id", "name", "secret"}
TransformRows ==
    {row \in UNION {[1..n -> [key : RowKeys, value : RowValues]] :
                        n \in 0..MaxRowColumns} :
        \A i, j \in 1..Len(row) : row[i].key = row[j].key => i = j}

\* The columns a table of the model is made of
TransformColumns ==
    <<[columnName |-> "id", dataType |-> "integer"],
      [columnName |-> "Name", dataType |-> "character varying"],
      [columnName |-> "name", dataType |-> "JSONB"],
      [columnName |-> "secret", dataType |-> "text"]>>

\* The subsequences of a sequence
RECURSIVE SubSeqs(_)
SubSeqs(seq) ==
    IF seq = <<>> THEN {<<>>}
    ELSE LET rest == SubSeqs(Tail(seq))
         IN rest \cup {<<Head(seq)>> \o r : r \in rest}

TransformTableInfos ==
    [schema : {SourceSchema}, table : {"users"},
     columns : {c \in SubSeqs(TransformColumns) : Len(c) <= 2},
     pkColumns : {<<>>, <<"id">>, <<"id", "name">>},
     updatedAtColumn : {NULL, "name"}]

InitTransform ==
    /\ RunIdle
    /\ fn = "none"
    /\ args \in [row : TransformRows,
                 tableInfo : TransformTableInfos,
                 textColumnsMode : {"auto", "all"},
                 excludedColumns : {<<>>, <<"SECRET", "name">>}]
    /\ ret = NoCall

CallTransformRowToDocument ==
    /\ fn = "none"
    /\ fn' = "transformRowToDocument"
    /\ ret' = transformRowToDocument(args.row, args.tableInfo, "cost-estimate",
                                     args.textColumnsMode, args.excludedColumns)
    /\ UNCHANGED <<args, runVars>>

\* rows.map(transformRowToDocument) of onFullTable: the documents, or the
\* error of the first row that throws
RECURSIVE transformBatch(_, _, _, _, _)
transformBatch(rows, tableInfo, run, textColumnsMode, excludedColumns) ==
    IF rows = <<>> THEN [threw |-> FALSE, docs |-> <<>>]
    ELSE LET doc == transformRowToDocument(Head(rows), tableInfo, run,
                                           textColumnsMode, excludedColumns)
             rest == transformBatch(Tail(rows), tableInfo, run, textColumnsMode,
                                    excludedColumns)
         IN IF doc.threw THEN [threw |-> TRUE, error |-> doc.error]
            ELSE IF rest.threw THEN rest
            ELSE [threw |-> FALSE, docs |-> <<doc>> \o rest.docs]

\* onFullTable on a table whose first fetch returns `rows` and whose second
\* fetch returns none, no external call failing
onFullTableOfRows(rows, tableInfo, run, textColumnsMode, excludedColumns) ==
    LET t == tableInfo.table
        reset == IoOp("deleteIfExists", t, NullRecord, TRUE)
        first == IoOp("fetchTableRows", t, [limit |-> BatchSize, offset |-> 0], TRUE)
        batched == transformBatch(rows, tableInfo, run, textColumnsMode,
                                  excludedColumns)
        upsert == IoOp("addDocuments", t, [count |-> Len(rows)], TRUE)
        last == IoOp("fetchTableRows", t,
                     [limit |-> BatchSize, offset |-> Len(rows)], TRUE)
    IN IF rows = <<>>
       THEN [throws |-> FALSE, rows |-> 0, message |-> NULL, ops |-> <<reset, first>>]
       ELSE IF batched.threw
       THEN [throws |-> TRUE, rows |-> 0, message |-> batched.error,
             ops |-> <<reset, first>>]
       ELSE [throws |-> FALSE, rows |-> Len(batched.docs), message |-> NULL,
             ops |-> <<reset, first, upsert, last>>]

\* The plans of a run that reindexes the table of the row and then another
\* table
TransformPlans ==
    <<[schema |-> SourceSchema, table |-> "users", mode |-> "full",
       reason |-> "no_previous_catalog"],
      [schema |-> SourceSchema, table |-> "orders", mode |-> "full",
       reason |-> "no_previous_catalog"]>>

\* The execute stage on TransformPlans: the first table holds the one row
\* of the call, the second table is empty
CallExecuteOnRow ==
    /\ fn = "none"
    /\ fn' = "executePlansWithHandler"
    /\ ret' = executePlansWithHandler(
                  TransformPlans,
                  <<onFullTableOfRows(<<args.row>>, args.tableInfo, "run_1",
                                      args.textColumnsMode, args.excludedColumns),
                    onFullTableOfRows(<<>>, [args.tableInfo EXCEPT !.table = "orders"],
                                      "run_1", args.textColumnsMode,
                                      args.excludedColumns)>>)
    /\ UNCHANGED <<args, runVars>>

NextTransform == CallTransformRowToDocument \/ CallExecuteOnRow

SpecTransform == InitTransform /\ [][NextTransform]_vars

----------------------------------------------------------------------------
(* Claims about the content of a document *)

\* The row has every declared primary-key column
HasPrimaryKey(row, tableInfo) ==
    \A i \in 1..Len(tableInfo.pkColumns) : HasColumn(row, tableInfo.pkColumns[i])

\* The column is selected for the content: it is not excluded, whatever the
\* case of its name, and it is textual unless the mode is all
IsSelectedColumn(column, textColumnsMode, excludedColumns) ==
    /\ \A i \in 1..Len(excludedColumns) :
          toLowerCase(excludedColumns[i]) # toLowerCase(column.columnName)
    /\ textColumnsMode = "all" \/ isTextualColumn(column.dataType)

\* No selected column of the table has a non-empty normalized value in the row
NoSelectedValue(a) ==
    \A i \in 1..Len(a.tableInfo.columns) :
        IsSelectedColumn(a.tableInfo.columns[i], a.textColumnsMode,
                         a.excludedColumns)
            => normalizeValue(RowGet(a.row, a.tableInfo.columns[i].columnName))
                   = NoText

\* C20: for every row that has all declared primary-key columns, every
\* table definition, text-columns mode and excluded-column list,
\* transformRowToDocument returns a document whose pageContent is not
\* empty; when no selected column has a non-empty normalized value the
\* content is the bracketed table name followed by the canonicalized row.
C20_NonEmptyContent ==
    (fn = "transformRowToDocument" /\ HasPrimaryKey(args.row, args.tableInfo))
    => /\ ~ret.threw
       /\ Len(ret.document.pageContent) > 0
       /\ \A k \in 1..Len(ret.document.pageContent) :
              ret.document.pageContent[k] # ""
       /\ NoSelectedValue(args) =>
              ret.document.pageContent =
                  <<"[", args.tableInfo.schema, ".", args.tableInfo.table, "]", " ">>
                      \o stableStringify(JsObject(args.row))

\* A row whose only selected column is null: the content is the table name
\* and the row with its keys sorted
C20_Witness ==
    /\ fn = "transformRowToDocument"
    /\ args.row = <<[key |-> "secret", value |-> JsNull],
                    [key |-> "id", value |-> JsNumber(12)]>>
    /\ args.tableInfo.pkColumns = <<"id">>
    /\ Len(args.tableInfo.columns) = 2
    /\ args.tableInfo.columns[2].columnName = "secret"
    /\ args.textColumnsMode = "auto"
    /\ args.excludedColumns = <<>>
    /\ ret.document.pageContent =
           <<"[", "public", ".", "users", "]", " ",
             "{", "\"", "id", "\"", ":", "1", "2", ",",
             "\"", "secret", "\"", ":", "null", "}">>

----------------------------------------------------------------------------
(* Claims about excluded columns *)

\* The column name is listed in excludedColumns, whatever its case
IsExcluded(columnName, excludedColumns) ==
    \E i \in 1..Len(excludedColumns) :
        toLowerCase(excludedColumns[i]) = toLowerCase(columnName)

\* The row without its excluded columns
RowWithoutExcluded(row, excludedColumns) ==
    SelectSeq(row, LAMBDA entry : ~IsExcluded(entry.key, excludedColumns))

\* C21: the name and the value of a column listed in excludedColumns,
\* matched case-insensitively, never appear in the page content of
\* transformRowToDocument: no piece of the content is the name of an
\* excluded column of the row, and the content is the one of the row
\* without its excluded columns, also when every other column is empty.
C21_ExcludedNeverInContent ==
    (fn = "transformRowToDocument" /\ ~ret.threw)
    => /\ \A k \in 1..Len(ret.document.pageContent) :
              \A i \in 1..Len(args.row) :
                  IsExcluded(args.row[i].key, args.excludedColumns)
                      => ret.document.pageContent[k] # args.row[i].key
       /\ ret.document.pageContent =
              createPageContent(
                  RowWithoutExcluded(args.row, args.excludedColumns),
                  args.tableInfo, args.textColumnsMode,
                  {toLowerCase(args.excludedColumns[i]) :
                       i \in 1..Len(args.excludedColumns)})

----------------------------------------------------------------------------
(* Claims about the primary key and the document id *)

\* The error of a row without the first of its missing primary-key columns
MissingPkError(row, tableInfo) ==
    LET i == CHOOSE i \in 1..Len(tableInfo.pkColumns) :
                /\ ~HasColumn(row, tableInfo.pkColumns[i])
                /\ \A j \in 1..(i - 1) : HasColumn(row, tableInfo.pkColumns[j])
    IN <<"Missing PK column ", tableInfo.pkColumns[i], " in ",
         tableInfo.schema, ".", tableInfo.table>>

\* C22: transformRowToDocument fails with a missing-primary-key error if
\* and only if some column of tableInfo.pkColumns is not a key of the row;
\* a primary-key column present with a null value does not fail; on failure
\* no document is produced.  In the execute stage the failure is the failed
\* result of that table only: nothing is upserted for it and the next table
\* is processed.
C22_MissingPrimaryKey ==
    /\ fn = "transformRowToDocument" =>
          IF HasPrimaryKey(args.row, args.tableInfo)
          THEN ~ret.threw /\ "document" \in DOMAIN ret
          ELSE /\ ret.threw
               /\ ret.error = MissingPkError(args.row, args.tableInfo)
               /\ DOMAIN ret = {"threw", "error"}
    /\ fn = "executePlansWithHandler" =>
          /\ Len(ret.results) = 2
          /\ ret.results[2].status = "reindexed"
          /\ IF HasPrimaryKey(args.row, args.tableInfo)
             THEN /\ ret.results[1].status = "reindexed"
                  /\ ret.results[1].rowsUpserted = 1
             ELSE /\ ret.results[1].status = "failed"
                  /\ ret.results[1].table = "users"
                  /\ ret.results[1].rowsUpserted = 0
                  /\ ret.results[1].error = MissingPkError(args.row, args.tableInfo)
                  /\ \A k \in 1..Len(ret.ops) :
                         ret.ops[k].op = "addDocuments" => ret.ops[k].table # "users"

\* A row that has the first primary-key column with a null value and not
\* the second: the table of the row failed for the second column and the
\* other table was reindexed
C22_Witness ==
    /\ fn = "executePlansWithHandler"
    /\ args.tableInfo.pkColumns = <<"id", "name">>
    /\ args.row = <<[key |-> "id", value |-> JsNull]>>
    /\ ret.results[1].status = "failed"
    /\ ret.results[1].error =
           <<"Missing PK column ", "name", " in ", "public", ".", "users">>
    /\ ret.results[2].status = "reindexed"


\* The column is a primary-key column of the table
IsKeyColumn(columnName, tableInfo) ==
    \E i \in 1..Len(tableInfo.pkColumns) : tableInfo.pkColumns[i] = columnName

\* A sequence in the reverse order
Reverse(seq) == [i \in 1..Len(seq) |-> seq[Len(seq) + 1 - i]]

\* Rows made of a row by inserting its keys in another order, by changing
\* the value of a non-key column, or by leaving a non-key column out
VariantsOf(row, tableInfo) ==
    {Reverse(row)}
    \cup {[row EXCEPT ![i].value = v] :
            i \in {j \in 1..Len(row) : ~IsKeyColumn(row[j].key, tableInfo)},
            v \in RowValues}
    \cup {SelectSeq(row, LAMBDA entry : entry.key # row[i].key) :
            i \in {j \in 1..Len(row) : ~IsKeyColumn(row[j].key, tableInfo)}}

\* Another table definition with the schema, table and primary key of a
\* definition
OtherColumnsOf(tableInfo) ==
    [tableInfo EXCEPT
        !.columns = IF @ = <<>> THEN <<TransformColumns[4]>> ELSE <<>>,
        !.updatedAtColumn = IF @ = NULL THEN "name" ELSE NULL]

\* C23: the docId of transformRowToDocument depends only on the schema, the
\* table and the values of the primary-key columns: a row that agrees on
\* those and differs in a non-key column or in the insertion order of its
\* keys, processed in another run with the other text-columns mode, another
\* excluded-column list and other columns in the table definition, has the
\* same docId.
C23_DocIdIdempotent ==
    (fn = "transformRowToDocument" /\ ~ret.threw)
    => \A row2 \in VariantsOf(args.row, args.tableInfo) \cup {args.row} :
          LET other == transformRowToDocument(
                           row2, OtherColumnsOf(args.tableInfo), "run_2",
                           IF args.textColumnsMode = "auto" THEN "all" ELSE "auto",
                           IF args.excludedColumns = <<>> THEN <<"id">> ELSE <<>>)
          IN ~other.threw /\ other.docId = ret.docId

\* A row whose key was inserted last and whose non-key column holds a
\* value: the row with the key first and another value has the same docId
C23_Witness ==
    /\ fn = "transformRowToDocument"
    /\ args.tableInfo.pkColumns = <<"id">>
    /\ args.row = <<[key |-> "name", value |-> JsString(<<"Alice">>)],
                    [key |-> "id", value |-> JsNumber(12)]>>
    /\ ret.docId = <<"sha256", "public.users|{\"id\":12}">>
    /\ <<[key |-> "id", value |-> JsNumber(12)],
         [key |-> "name", value |-> JsNull]>>
           \in {[r EXCEPT ![2].value = JsNull] :
                    r \in VariantsOf(args.row, args.tableInfo)}

----------------------------------------------------------------------------
(* buildDocId called on two triples of a bounded set *)

\* The number of columns of a primary key
MaxKeyColumns == 2

\* The values of a primary-key column
KeyValues ==
    {JsNumber(7), JsBigInt(7), JsString(<<"7">>), JsString(<<"Alice">>), JsNull}

\* The primary-key objects: up to MaxKeyColumns columns in any order
DocIdKeys ==
    {pk \in UNION {[1..n -> [key : {"id", "name"}, value : KeyValues]] :
                        n \in 0..MaxKeyColumns} :
        \A i, j \in 1..Len(pk) : pk[i].key = pk[j].key => i = j}

\* The inputs of buildDocId; PostgreSQL allows a dot in a quoted identifier
DocIdInputs ==
    [schema : {"public", "public.x"}, table : {"users", "x.users"},
     primaryKey : DocIdKeys]

InitDocId ==
    /\ RunIdle
    /\ fn = "none"
    /\ args \in [first : DocIdInputs, second : DocIdInputs]
    /\ ret = NoCall

CallBuildDocId ==
    /\ fn = "none"
    /\ fn' = "buildDocId"
    /\ ret' = [first |-> buildDocId(args.first.schema, args.first.table,
                                    args.first.primaryKey),
               second |-> buildDocId(args.second.schema, args.second.table,
                                     args.second.primaryKey)]
    /\ UNCHANGED <<args, runVars>>

SpecDocId == InitDocId /\ [][CallBuildDocId]_vars

\* Two objects with the same keys and the same value for every key
SameObject(o1, o2) ==
    /\ {o1[i].key : i \in 1..Len(o1)} = {o2[i].key : i \in 1..Len(o2)}
    /\ \A i \in 1..Len(o1) : \A j \in 1..Len(o2) :
          o1[i].key = o2[j].key => o1[i].value = o2[j].value

\* C24: two inputs of buildDocId that differ in schema, in table or in the
\* primary-key object (another key column or another value, values of
\* different types such as a big integer and a string included) have
\* different ids: no two distinct triples share an id.
C24_DocIdSensitive ==
    (fn = "buildDocId" /\ ret.first = ret.second)
    => /\ args.first.schema = args.second.schema
       /\ args.first.table = args.second.table
       /\ SameObject(args.first.primaryKey, args.second.primaryKey)

----------------------------------------------------------------------------
(* stableStringify called on the nested values of a bounded set *)

\* The number of entries of an object and of items of an array
MaxEntries == 2

CanonScalars == {JsNull, JsUndefined, JsNumber(1), JsString(<<"b">>)}

\* The objects with values of a set: up to MaxEntries entries of distinct
\* keys in any order
ObjectsOf(keys, values) ==
    {JsObject(entries) :
        entries \in {e \in UNION {[1..n -> [key : keys, value : values]] :
                                      n \in 0..MaxEntries} :
                        \A i, j \in 1..Len(e) : e[i].key = e[j].key => i = j}}

\* The arrays with items of a set
ArraysOf(values) ==
    {JsArray(items) : items \in UNION {[1..n -> values] : n \in 0..MaxEntries}}

\* Values nested one level and two levels deep
CanonInner ==
    CanonScalars \cup ObjectsOf({"id", "name"}, CanonScalars)
        \cup ArraysOf(CanonScalars)
CanonValues ==
    CanonInner \cup ObjectsOf({"meta", "id"}, CanonInner) \cup ArraysOf(CanonInner)

InitCanon ==
    /\ RunIdle
    /\ fn = "none"
    /\ args \in [value : CanonValues]
    /\ ret = NoCall

CallStableStringify ==
    /\ fn = "none"
    /\ fn' = "stableStringify"
    /\ ret' = Flat(stableStringify(args.value))
    /\ UNCHANGED <<args, runVars>>

SpecCanon == InitCanon /\ [][CallStableStringify]_vars

----------------------------------------------------------------------------
(* Claims about canonicalization *)

\* The permutations of 1..n
PermsOf(n) == {p \in [1..n -> 1..n] : \A i, j \in 1..n : p[i] = p[j] => i = j}

\* The values equal to a value up to the insertion order of the keys of its
\* objects, at every nesting level
RECURSIVE Reorderings(_)
Reorderings(value) ==
    IF value.t = "object"
    THEN LET n == Len(value.entries)
             inner == {e \in [1..n -> [key : {value.entries[i].key : i \in 1..n},
                                       value : UNION {Reorderings(value.entries[i].value)
                                                          : i \in 1..n}]] :
                          \A i \in 1..n :
                              /\ e[i].key = value.entries[i].key
                              /\ e[i].value \in Reorderings(value.entries[i].value)}
         IN {JsObject([i \in 1..n |-> e[p[i]]]) : e \in inner, p \in PermsOf(n)}
    ELSE IF value.t = "array"
    THEN LET n == Len(value.items)
         IN {JsArray(items) :
                items \in {a \in [1..n -> UNION {Reorderings(value.items[i])
                                                     : i \in 1..n}] :
                              \A i \in 1..n : a[i] \in Reorderings(value.items[i])}}
    ELSE {value}

\* A value with null in the place of every undefined
RECURSIVE NullForUndefined(_)
NullForUndefined(value) ==
    IF value.t = "undefined" THEN JsNull
    ELSE IF value.t = "object"
    THEN JsObject([i \in 1..Len(value.entries) |->
                      [key |-> value.entries[i].key,
                       value |-> NullForUndefined(value.entries[i].value)]])
    ELSE IF value.t = "array"
    THEN JsArray([i \in 1..Len(value.items) |-> NullForUndefined(value.items[i])])
    ELSE value

\* The strings of the items of an array
ItemStrings(items) == [i \in 1..Len(items) |-> Flat(stableStringify(items[i]))]

----------------------------------------------------------------------------
(* computeSchemaHash called on two column lists of a bounded set *)

\* The number of columns of a list and the largest ordinal position
MaxColumns == 2
MaxOrdinal == 3

\* The two columns of the tests, without ordinal position
IdColumn ==
    [columnName |-> "id", dataType |-> "integer", isNullable |-> FALSE,
     columnDefault |-> JsNull, pkPosition |-> JsNumber(1)]
NameColumn ==
    [columnName |-> "name", dataType |-> "character varying",
     isNullable |-> FALSE, columnDefault |-> JsNull, pkPosition |-> JsNull]

\* The two columns, and the second one with its data type, nullability,
\* default or pk position changed
ColumnShapes ==
    {IdColumn, NameColumn,
     [NameColumn EXCEPT !.dataType = "text"],
     [NameColumn EXCEPT !.isNullable = TRUE],
     [NameColumn EXCEPT !.columnDefault = JsString(<<"0">>)],
     [NameColumn EXCEPT !.pkPosition = JsNumber(2)]}

\* A column shape at an ordinal position
ColumnAt(shape, ordinal) ==
    [columnName |-> shape.columnName, dataType |-> shape.dataType,
     isNullable |-> shape.isNullable, columnDefault |-> shape.columnDefault,
     ordinalPosition |-> ordinal, pkPosition |-> shape.pkPosition]

\* The column lists: up to MaxColumns columns of distinct ordinal positions
\* in any order
ColumnLists ==
    {columns \in UNION {[1..n -> {ColumnAt(c, o) : c \in ColumnShapes,
                                                   o \in 1..MaxOrdinal}] :
                            n \in 0..MaxColumns} :
        \A i, j \in 1..Len(columns) :
            columns[i].ordinalPosition = columns[j].ordinalPosition => i = j}

InitSchemaHash ==
    /\ RunIdle
    /\ fn = "none"
    /\ args \in [first : ColumnLists, second : ColumnLists]
    /\ ret = NoCall

CallComputeSchemaHash ==
    /\ fn = "none"
    /\ fn' = "computeSchemaHash"
    /\ ret' = [first |-> computeSchemaHash(args.first),
               second |-> computeSchemaHash(args.second)]
    /\ UNCHANGED <<args, runVars>>

SpecSchemaHash == InitSchemaHash /\ [][CallComputeSchemaHash]_vars

\* The (name, data type, nullability, default, pk position) of the columns
\* of a list of distinct ordinal positions, by increasing ordinal position
DefinitionsInOrder(columns) ==
    LET n == Len(columns)
        p == CHOOSE q \in PermsOf(n) :
                \A i, j \in 1..n :
                    i < j => columns[q[i]].ordinalPosition
                                 < columns[q[j]].ordinalPosition
    IN [i \in 1..n |->
           <<columns[p[i]].columnName, columns[p[i]].dataType,
             columns[p[i]].isNullable, columns[p[i]].columnDefault,
             columns[p[i]].pkPosition>>]

\* C26: with the hash injective, computeSchemaHash of two column lists of
\* distinct ordinal positions is equal if and only if, each sorted by
\* ordinal position, the sequences of (name, data type, nullability,
\* default, pk position) are identical: a changed data type, nullability,
\* default or pk position changes the hash; a permuted list, or ordinals
\* renumbered in the same relative order, leave it unchanged.
C26_SchemaHash ==
    fn = "computeSchemaHash" =>
        (ret.first = ret.second
            <=> DefinitionsInOrder(args.first) = DefinitionsInOrder(args.second))

\* The two base columns given last first with ordinals 1 and 2, and given
\* in order with ordinals 1 and 3: the hashes are equal
C26_Witness ==
    /\ fn = "computeSchemaHash"
    /\ args.first = <<ColumnAt(NameColumn, 2), ColumnAt(IdColumn, 1)>>
    /\ args.second = <<ColumnAt(IdColumn, 1), ColumnAt(NameColumn, 3)>>
    /\ ret.first = ret.second

----------------------------------------------------------------------------
(* pricing.ts: getPricing, its cache file and its live source *)

\* A price per million tokens is in millionths of a dollar
PriceEntry(provider, model, pricePerMillion) ==
    [provider |-> provider, model |-> model, pricePerMillion |-> pricePerMillion]

FALLBACK_PRICING ==
    <<PriceEntry("openai", "text-embedding-3-small", 20000),
      PriceEntry("openai", "text-embedding-3-large", 130000),
      PriceEntry("openai", "text-embedding-ada-002", 100000),
      PriceEntry("cohere", "embed-english-v3.0", 100000),
      PriceEntry("cohere", "embed-multilingual-v3.0", 100000),
      PriceEntry("voyage", "voyage-3-large", 180000),
      PriceEntry("voyage", "voyage-3", 60000),
      PriceEntry("voyage", "voyage-3-lite", 20000),
      PriceEntry("ollama", "nomic-embed-text", 0),
      PriceEntry("ollama", "mxbai-embed-large", 0),
      PriceEntry("ollama", "all-minilm", 0)>>

CACHE_TTL_MS == 24 * 60 * 60 * 1000

\* null, where a function returns an array or null, and an array
NoEntries == [isNull |-> TRUE, items |-> <<>>]
EntriesOf(items) == [isNull |-> FALSE, items |-> items]

\* readCache, given the cache file and Date.now(): the entries, or null
\* when the file is missing, is not JSON, is not an object, has no valid
\* fetchedAt, is not fresh or holds no entries array
readCache(file, now) ==
    IF file.kind # "object" THEN NoEntries
    ELSE IF ~file.fetchedAt.valid THEN NoEntries
    ELSE IF now - file.fetchedAt.ms < CACHE_TTL_MS /\ file.entries.isArray
    THEN EntriesOf(file.entries.items)
    ELSE NoEntries

\* writeCache(entries) at time now: the cache file after it; a failed
\* write is swallowed and leaves the file as it was
writeCache(file, entries, now, writeOk) ==
    IF writeOk
    THEN [kind |-> "object", fetchedAt |-> [valid |-> TRUE, ms |-> now],
          entries |-> [isArray |-> TRUE, items |-> entries]]
    ELSE file

\* toLowerCase of the provider names of the model
LowerProvider(name) == IF name = "Cohere" THEN "cohere" ELSE name

\* inferProvider: a model key is the part before its first slash, empty
\* when it has none, and the part after it
inferProvider(modelKey, rawEntry) ==
    IF rawEntry.litellm_provider.isString
    THEN LowerProvider(rawEntry.litellm_provider.s)
    ELSE IF modelKey.prefix # "" THEN LowerProvider(modelKey.prefix)
    ELSE IF modelKey.name \in {"text-embedding-3-small", "ada-v2", "embedding-001"}
    THEN "openai"
    ELSE "other"

\* extractModelName
extractModelName(modelKey) == modelKey.name

\* The loop of fetchFromLiteLLM over Object.entries(data)
RECURSIVE pricingEntriesOf(_)
pricingEntriesOf(data) ==
    IF data = <<>> THEN <<>>
    ELSE LET entry == Head(data).value
             rest == pricingEntriesOf(Tail(data))
         IN IF entry.mode # "embedding" THEN rest
            ELSE IF ~entry.input_cost_per_token.isNumber THEN rest
            ELSE <<PriceEntry(inferProvider(Head(data).key, entry),
                              extractModelName(Head(data).key),
                              entry.input_cost_per_token.n * 1000000)>> \o rest

\* fetchFromLiteLLM: it throws when the request fails or times out, when
\* the status is not ok and when the body is not a JSON object
fetchFromLiteLLM(response) ==
    IF response.kind # "ok" THEN [threw |-> TRUE, value |-> <<>>]
    ELSE LET entries == pricingEntriesOf(response.data)
         IN [threw |-> FALSE,
             value |-> IF Len(entries) > 0 THEN entries ELSE FALLBACK_PRICING]

\* getPricing without the fallback: a failed fetch rejects
getPricing_NoFallback(file, now, response) ==
    LET cached == readCache(file, now)
        fetched == fetchFromLiteLLM(response)
    IN IF cached # NoEntries
       THEN [rejected |-> FALSE, value |-> cached.items, write |-> NoEntries]
       ELSE IF ~fetched.threw
       THEN [rejected |-> FALSE, value |-> fetched.value,
             write |-> EntriesOf(fetched.value)]
       ELSE [rejected |-> TRUE, value |-> <<>>, write |-> NoEntries]

\* getPricing: what it returns and the entries it hands to writeCache
getPricing(file, now, response) ==
    LET cached == readCache(file, now)
        fetched == fetchFromLiteLLM(response)
    IN IF cached # NoEntries
       THEN [rejected |-> FALSE, value |-> cached.items, write |-> NoEntries]
       ELSE IF ~fetched.threw
       THEN [rejected |-> FALSE, value |-> fetched.value,
             write |-> EntriesOf(fetched.value)]
       ELSE [rejected |-> FALSE, value |-> FALLBACK_PRICING, write |-> NoEntries]

----------------------------------------------------------------------------
(* getPricing called with the cache files and the responses of a bounded set *)

\* The number of models in the live data
MaxModels == 2

\* Date.now() of the call
PricingNow == 2 * CACHE_TTL_MS

\* The values of fetchedAt: a date around the limit of freshness, the
\* present, the future, or no valid date
FetchedAts ==
    {[valid |-> TRUE, ms |-> PricingNow - CACHE_TTL_MS + d] : d \in {-1, 0, 1}}
    \cup {[valid |-> TRUE, ms |-> PricingNow], [valid |-> TRUE, ms |-> PricingNow + 1],
          [valid |-> FALSE, ms |-> 0]}

\* The cache files: missing, not JSON, JSON that is not an object, or an
\* object with a fetchedAt and entries that may not be an array
CacheFiles ==
    {[kind |-> "missing"], [kind |-> "invalid"], [kind |-> "null"]}
    \cup [kind : {"object"}, fetchedAt : FetchedAts,
          entries : {[isArray |-> FALSE, items |-> <<>>],
                     [isArray |-> TRUE, items |-> <<>>],
                     [isArray |-> TRUE,
                      items |-> <<PriceEntry("openai", "cached-model", 5)>>]}]

\* The entries of the live data
RawEntries ==
    [key : {[prefix |-> "", name |-> "text-embedding-3-small"],
            [prefix |-> "Cohere", name |-> "embed-v4"],
            [prefix |-> "", name |-> "gpt-4"]},
     value : [mode : {"embedding", "chat"},
              input_cost_per_token : {[isNumber |-> TRUE, n |-> 2],
                                      [isNumber |-> FALSE, n |-> 0]},
              litellm_provider : {[isString |-> TRUE, s |-> "voyage"],
                                  [isString |-> FALSE, s |-> ""]}]]

\* The outcomes of the request
Responses ==
    {[kind |-> k, data |-> <<>>] :
        k \in {"network-error", "timeout", "http-error", "not-json", "null"}}
    \cup {[kind |-> "ok", data |-> data] :
            data \in {e \in UNION {[1..n -> RawEntries] : n \in 0..MaxModels} :
                        \A i, j \in 1..Len(e) : e[i].key = e[j].key => i = j}}

InitPricing ==
    /\ RunIdle
    /\ fn = "none"
    /\ args \in [file : CacheFiles, response : Responses, writeOk : BOOLEAN]
    /\ ret = NoCall

\* getPricing returns; the write it started has not happened yet
CallGetPricing ==
    /\ fn = "none"
    /\ fn' = "getPricing"
    /\ ret' = getPricing(args.file, PricingNow, args.response)
    /\ UNCHANGED <<args, runVars>>

\* The write getPricing started without awaiting it ends
WriteCacheEnds ==
    /\ fn = "getPricing"
    /\ ret.write # NoEntries
    /\ fn' = "writeCache"
    /\ args' = [args EXCEPT !.file = writeCache(@, ret.write.items, PricingNow,
                                                args.writeOk)]
    /\ UNCHANGED <<ret, runVars>>

NextPricing == CallGetPricing \/ WriteCacheEnds

SpecPricing == InitPricing /\ [][NextPricing]_vars

----------------------------------------------------------------------------
(* Claims about pricing *)

\* The cache file exists, parses to a cache of entries and is younger than
\* 24 hours
FreshCache(file) ==
    /\ file.kind = "object"
    /\ file.entries.isArray
    /\ file.fetchedAt.valid
    /\ PricingNow - file.fetchedAt.ms < 24 * 60 * 60 * 1000

\* The live fetch succeeded
FetchSucceeded(response) == response.kind = "ok"

\* The embedding models with a numeric price in the live data
PricedModels(response) ==
    SelectSeq(response.data,
              LAMBDA e : e.value.mode = "embedding"
                            /\ e.value.input_cost_per_token.isNumber)

\* C27: getPricing never rejects and returns a pricing array: the cached
\* entries when the cache file exists, parses and is younger than 24
\* hours; otherwise what a successful live fetch returns, which is then
\* written to the cache, a failed write being ignored; otherwise, on any
\* fetch error, the bundled fallback pricing.
C27_PricingResolution ==
    /\ fn \in {"getPricing", "writeCache"} =>
          /\ ~ret.rejected
          /\ DOMAIN ret.value = 1..Len(ret.value)
    /\ fn = "getPricing" =>
          IF FreshCache(args.file)
          THEN ret.value = args.file.entries.items /\ ret.write = NoEntries
          ELSE IF FetchSucceeded(args.response)
          THEN /\ Len(ret.value) =
                      IF PricedModels(args.response) = <<>>
                      THEN Len(FALLBACK_PRICING)
                      ELSE Len(PricedModels(args.response))
               /\ PricedModels(args.response) # <<>> =>
                      \A i \in 1..Len(ret.value) :
                          /\ ret.value[i].model
                                 = PricedModels(args.response)[i].key.name
                          /\ ret.value[i].pricePerMillion = 1000000 *
                                 PricedModels(args.response)[i]
                                     .value.input_cost_per_token.n
               /\ PricedModels(args.response) = <<>> =>
                      ret.value = FALLBACK_PRICING
               /\ ret.write = EntriesOf(ret.value)
          ELSE ret.value = FALLBACK_PRICING /\ ret.write = NoEntries
    /\ fn = "writeCache" =>
          \/ /\ args.writeOk
             /\ args.file.kind = "object"
             /\ args.file.entries.items = ret.value
             /\ args.file.fetchedAt = [valid |-> TRUE, ms |-> PricingNow]
          \/ ~args.writeOk /\ ~FreshCache(args.file)

\* A stale cache one millisecond too old and a live fetch of one priced
\* model: the fetched entry is returned, and the write of the cache failed
C27_Witness ==
    /\ fn = "writeCache"
    /\ ~args.writeOk
    /\ args.file.kind = "object"
    /\ args.file.fetchedAt.ms = PricingNow - CACHE_TTL_MS
    /\ args.file.entries.items # <<>>
    /\ ret.value = <<PriceEntry("cohere", "embed-v4", 2000000)>>

----------------------------------------------------------------------------
(* The snapshot stage records all the snapshots or none *)

\* A fetchTableSnapshot of the current run has failed
SnapshotFetchFailed ==
    \E i \in 1..Len(io) : io[i].op = "fetchTableSnapshot" /\ ~io[i].ok

\* The calls of the current run that plan, execute or write the catalog
LaterStageOps ==
    {i \in 1..Len(io) :
        io[i].op \in {"getCatalogRecord", "deleteIfExists", "fetchTableRows",
                      "addDocuments", "putCatalogRecord"}}

\* After a failed snapshot fetch nothing is recorded, planned, executed or
\* written to the catalog, whether the run returns or not
SnapshotFailureRecordsNothing ==
    SnapshotFetchFailed =>
        /\ tableSnapshots = <<>>
        /\ tablePlans = <<>>
        /\ tableResults = <<>>
        /\ LaterStageOps = {}
        /\ catalogStore = catalogBefore

\* C28: when the snapshot fetch of one discovered table fails, the stage
\* records no snapshot (also not of the tables fetched before), fatalError
\* is set and the status is failed, and the run plans nothing, executes
\* nothing and finalize writes no catalog record.
C28_SnapshotAtomicity ==
    SnapshotFetchFailed =>
        /\ SnapshotFailureRecordsNothing
        /\ fatalError # NULL
        /\ status = "failed"

----------------------------------------------------------------------------
(* graph.ts: onFullTable await by await, on a table that may change while  *)
(* it is read                                                              *)

\* Bounds of the stepwise handler
MaxTableRows == 4
MaxBatchSize == 3
MaxChanges == 1

\* The locals of onFullTable when it awaits vectorStore.deleteIfExists():
\* `at` is the call awaited, `rows` the length of the batch in hand,
\* `docsSent` the number of documents passed to addDocuments so far
HandlerFrame ==
    [at |-> "deleteIfExists", offset |-> 0, rowsUpserted |-> 0, rows |-> 0,
     docsSent |-> 0, ops |-> <<>>]

\* The handler has left the await with an exception
Thrown(frame, op) == [frame EXCEPT !.at = "thrown", !.ops = Append(@, op)]

\* await vectorStore.deleteIfExists(); let rowsUpserted = 0; let offset = 0
afterDeleteIfExists(frame, table, ok) ==
    LET op == IoOp("deleteIfExists", table, NullRecord, ok)
    IN IF ~ok THEN Thrown(frame, op)
       ELSE [frame EXCEPT !.at = "fetchTableRows", !.offset = 0,
                          !.rowsUpserted = 0, !.ops = Append(@, op)]

\* rows = await fetchTableRows({limit: batchSize, offset});
\* if (rows.length === 0) break;  (and then return rowsUpserted)
afterFetchTableRows(frame, table, tableRows, batchSize, ok) ==
    LET returned == IF ok THEN RowsReturned(tableRows, batchSize, frame.offset)
                    ELSE 0
        op == IoOp("fetchTableRows", table,
                   [limit |-> batchSize, offset |-> frame.offset,
                    returned |-> returned], ok)
    IN IF ~ok THEN Thrown(frame, op)
       ELSE [frame EXCEPT !.at = IF returned = 0 THEN "returned"
                                 ELSE "addDocuments",
                          !.rows = returned, !.ops = Append(@, op)]

\* The handler advances the offset by the limit instead of by rows.length
afterAddDocuments_AdvanceByLimit(frame, table, batchSize, ok) ==
    LET op == IoOp("addDocuments", table, [count |-> frame.rows], ok)
    IN IF ~ok THEN Thrown(frame, op)
       ELSE [frame EXCEPT !.at = "fetchTableRows",
                          !.rowsUpserted = @ + frame.rows,
                          !.offset = @ + batchSize,
                          !.docsSent = @ + frame.rows,
                          !.ops = Append(@, op)]

\* docs = rows.map(transformRowToDocument); await vectorStore.addDocuments(docs);
\* rowsUpserted += docs.length; offset += rows.length
afterAddDocuments(frame, table, batchSize, ok) ==
    LET op == IoOp("addDocuments", table, [count |-> frame.rows], ok)
    IN IF ~ok THEN Thrown(frame, op)
       ELSE [frame EXCEPT !.at = "fetchTableRows",
                          !.rowsUpserted = @ + frame.rows,
                          !.offset = @ + frame.rows,
                          !.docsSent = @ + frame.rows,
                          !.ops = Append(@, op)]

\* onFullTable(tablePlan) has been called on a table of `rows` rows;
\* `stable` tells whether the table stays as it is during the call
InitReindex ==
    /\ RunIdle
    /\ fn = "onFullTable"
    /\ args \in [table : {"users"}, rows : 0..MaxTableRows,
                 batchSize : 1..MaxBatchSize, stable : BOOLEAN,
                 firstRows : 0..MaxTableRows, changes : {0}]
    /\ args.firstRows = args.rows
    /\ ret = HandlerFrame

DeleteIfExistsEnds ==
    /\ fn = "onFullTable"
    /\ ret.at = "deleteIfExists"
    /\ \E ok \in BOOLEAN : ret' = afterDeleteIfExists(ret, args.table, ok)
    /\ UNCHANGED <<fn, args, runVars>>

FetchTableRowsEnds ==
    /\ fn = "onFullTable"
    /\ ret.at = "fetchTableRows"
    /\ \E ok \in BOOLEAN :
          ret' = afterFetchTableRows(ret, args.table, args.rows, args.batchSize, ok)
    /\ UNCHANGED <<fn, args, runVars>>

AddDocumentsEnds ==
    /\ fn = "onFullTable"
    /\ ret.at = "addDocuments"
    /\ \E ok \in BOOLEAN :
          ret' = afterAddDocuments(ret, args.table, args.batchSize, ok)
    /\ UNCHANGED <<fn, args, runVars>>

\* Another client inserts or deletes rows while the handler awaits
TableChanges ==
    /\ fn = "onFullTable"
    /\ ~args.stable
    /\ ret.at \in {"deleteIfExists", "fetchTableRows", "addDocuments"}
    /\ args.changes < MaxChanges
    /\ \E n \in 0..MaxTableRows :
          /\ n # args.rows
          /\ args' = [args EXCEPT !.rows = n, !.changes = @ + 1]
    /\ UNCHANGED <<fn, ret, runVars>>

HandlerStep == DeleteIfExistsEnds \/ FetchTableRowsEnds \/ AddDocumentsEnds

NextReindex ==
    \/ DeleteIfExistsEnds
    \/ FetchTableRowsEnds
    \/ AddDocumentsEnds
    \/ TableChanges

SpecReindex == InitReindex /\ [][NextReindex]_vars

\* Every awaited call settles: the handler is resumed
FairReindex == SpecReindex /\ WF_vars(HandlerStep)

\* The numbers of rows returned by the fetches before call number k
RECURSIVE ReturnedBefore(_, _)
ReturnedBefore(ops, k) ==
    IF k <= 1 THEN 0
    ELSE ReturnedBefore(ops, k - 1)
         + (IF ops[k - 1].op = "fetchTableRows" THEN ops[k - 1].arg.returned
            ELSE 0)

\* The order of the calls of the handler so far
ReindexOrder ==
    LET ops == ret.ops
        n == Len(ops)
    IN /\ \A k \in 1..n : (ops[k].op = "deleteIfExists") = (k = 1)
       /\ \A k \in 1..n : ops[k].op = "fetchTableRows" =>
             /\ ops[k].arg.limit = args.batchSize
             /\ ops[k].arg.offset = ReturnedBefore(ops, k)
             /\ k > 1 /\ ops[k - 1].ok
             /\ ops[k - 1].op \in {"deleteIfExists", "addDocuments"}
             /\ (ops[k].ok /\ ops[k].arg.returned > 0) =>
                   IF k < n
                   THEN /\ ops[k + 1].op = "addDocuments"
                        /\ ops[k + 1].arg.count = ops[k].arg.returned
                   ELSE ret.at = "addDocuments"
             /\ (ops[k].ok /\ ops[k].arg.returned = 0) =>
                   k = n /\ ret.at = "returned"
       /\ \A k \in 1..n : ops[k].op = "addDocuments" =>
             /\ k > 1 /\ ops[k - 1].op = "fetchTableRows" /\ ops[k - 1].ok
       /\ ret.at = "returned" =>
             /\ n > 0 /\ ops[n].op = "fetchTableRows" /\ ops[n].arg.returned = 0
             /\ ret.rowsUpserted = ReturnedBefore(ops, n)
             /\ ret.docsSent = ret.rowsUpserted
       /\ (ret.at = "returned" /\ args.stable) =>
             /\ ret.rowsUpserted = args.firstRows
             /\ args.rows = args.firstRows

\* The handler has returned or thrown
HandlerEnded == ret.at \in {"returned", "thrown"}

\* No awaited call of the handler has failed
NoCallFailed == \A k \in 1..Len(ret.ops) : ret.ops[k].ok

\* C29: a full reindex of one table resets the target index before the
\* first row fetch, fetches with limit batchSize at offsets 0, r1, r1+r2, ...
\* (the rows actually returned), upserts each non-empty batch before the
\* next fetch, stops at the first empty batch and returns the number of rows
\* fetched; on an unchanging table of N rows it ends, and when no call
\* failed it has upserted exactly N rows.
C29_FullReindex ==
    /\ []ReindexOrder
    /\ (args.stable ~> HandlerEnded)
    /\ [](HandlerEnded /\ NoCallFailed /\ args.stable =>
             ret.at = "returned" /\ ret.docsSent = args.firstRows)

\* A table of four rows was read in batches of three: the second batch was
\* short, the third empty
C29_Witness ==
    /\ ret.at = "returned"
    /\ args.stable
    /\ args.firstRows = 4
    /\ args.batchSize = 3
    /\ ret.rowsUpserted = 4
    /\ Len(ret.ops) = 6

----------------------------------------------------------------------------
(* The execute stage takes the tables one after another *)

\* The calls of the current run made by the handler of a table
HandlerOps ==
    {i \in 1..Len(io) :
        io[i].op \in {"deleteIfExists", "fetchTableRows", "addDocuments"}}

\* The positions of table t in the plan
PlansOf(t) == {p \in 1..Len(tablePlans) : tablePlans[p].table = t}

\* Call j belongs to a plan that is not before the plan of call i
NotBefore(i, j) ==
    \A p \in PlansOf(io[i].table), q \in PlansOf(io[j].table) : p <= q

\* tableResults has one result per plan, in the order of the plans
ResultsInPlanOrder ==
    /\ Len(tableResults) = Len(tablePlans)
    /\ \A p \in 1..Len(tablePlans) :
          /\ tableResults[p].schema = tablePlans[p].schema
          /\ tableResults[p].table = tablePlans[p].table
          /\ tableResults[p].mode = tablePlans[p].mode

\* C30: the execute stage processes the tables one after another in plan
\* order: every index reset, row fetch and upsert of a table comes after
\* the last call of the tables planned before it, no call of a table follows
\* its failed call, only tables planned full are processed, and tableResults
\* has the order of tablePlans.
C30_SequentialInPlanOrder ==
    /\ \A i \in HandlerOps :
          /\ \E p \in PlansOf(io[i].table) : tablePlans[p].mode = "full"
          /\ \A j \in HandlerOps :
                i < j => /\ NotBefore(i, j)
                         /\ (io[j].table = io[i].table => io[i].ok)
    /\ (pc = "finalize" /\ fatalError = NULL) => ResultsInPlanOrder
    /\ tableResults # <<>> => ResultsInPlanOrder

\* Two tables were planned full; the handler of the first failed after its
\* reset and the second table was processed after it
C30_Witness ==
    /\ pc = "finalize"
    /\ Len(tablePlans) = 2
    /\ tableResults # <<>>
    /\ tableResults[1].status = "failed"
    /\ tableResults[2].status = "reindexed"
    /\ \E i, j \in HandlerOps :
          /\ io[i].table = tablePlans[1].table /\ ~io[i].ok
          /\ io[i].op = "fetchTableRows"
          /\ io[j].table = tablePlans[2].table /\ io[j].op = "addDocuments"

----------------------------------------------------------------------------
(* The order of the writes to the control indices *)

\* The calls of the current run that write a catalog record
CatalogWrites == {i \in 1..Len(io) : io[i].op = "putCatalogRecord"}

\* The calls of the current run that write the run record
RunWrites == {i \in 1..Len(io) : io[i].op = "putRunRecord"}

\* The run has not finished its finalize stage
BeforeFinalizeEnds == pc \in {"discover", "snapshot", "plan", "execute",
                              "finalize", "aborted"}

----------------------------------------------------------------------------
(* The fatalError channel through the six nodes.  errorMessage(error) is   *)
(* error.message, which may be the empty string (an Error constructed      *)
(* without a message, or Node's AggregateError of a refused connection).   *)

\* The messages errorMessage may return for a failure in a stage
StageMessages(stage) ==
    {"", CASE stage = "startRun" -> ErrStart
           [] stage = "discoverTables" -> ErrDiscover
           [] stage = "snapshotTables" -> ErrSnapshot
           [] stage = "planTables" -> ErrPlan
           [] stage = "executeTables" -> ErrExecute
           [] OTHER -> ErrFinalize}

\* What a node makes of the channels fatalError and status.  `failure` is
\* NullRecord when every call of the node succeeds, else the error caught.
\*   startRun: returns fatalError null, or errorMessage(error)
\*   discover .. execute: `if (state.fatalError) return`, else as startRun
\*     without the null
\*   finalizeRun: state.fatalError ?? errorMessage(error) in its catch
nodeUpdate(stage, fatal, results, failure) ==
    LET caught == failure # NullRecord
    IN IF stage = "startRun"
       THEN IF caught
            THEN [ran |-> TRUE, fatalError |-> failure.message, status |-> "failed"]
            ELSE [ran |-> TRUE, fatalError |-> NULL, status |-> "running"]
       ELSE IF stage = "finalizeRun"
       THEN IF caught
            THEN [ran |-> TRUE,
                  fatalError |-> IF fatal # NULL THEN fatal ELSE failure.message,
                  status |-> "failed"]
            ELSE [ran |-> TRUE, fatalError |-> NULL,
                  status |-> computeRunStatus(fatal, results)]
       ELSE IF Truthy(fatal)
       THEN [ran |-> FALSE, fatalError |-> NULL, status |-> NULL]
       ELSE IF caught
       THEN [ran |-> TRUE, fatalError |-> failure.message, status |-> "failed"]
       ELSE [ran |-> TRUE, fatalError |-> NULL, status |-> NULL]

\* The stage of each position of the run
StageAt(p) ==
    CASE p = "start" -> "startRun"
      [] p = "discover" -> "discoverTables"
      [] p = "snapshot" -> "snapshotTables"
      [] p = "plan" -> "planTables"
      [] p = "execute" -> "executeTables"
      [] OTHER -> "finalizeRun"

PositionAfter(p) ==
    CASE p = "start" -> "discover"
      [] p = "discover" -> "snapshot"
      [] p = "snapshot" -> "plan"
      [] p = "plan" -> "execute"
      [] p = "execute" -> "finalize"
      [] OTHER -> "done"

\* What executePlansWithHandler returns for the one table of the run
OneTableResults ==
    {<<>>,
     <<[schema |-> SourceSchema, table |-> "users", mode |-> "full",
        status |-> "reindexed", rowsUpserted |-> 1, error |-> NULL]>>,
     <<[schema |-> SourceSchema, table |-> "users", mode |-> "full",
        status |-> "failed", rowsUpserted |-> 0, error |-> ErrFetch]>>}

\* The tableResults channel after a node: startRun and a short-circuited
\* execute return [], execute returns the results of its handler
ResultsAfter(stage, ran, results, handled) ==
    IF stage = "startRun" THEN <<>>
    ELSE IF stage = "executeTables" THEN (IF ran THEN handled ELSE <<>>)
    ELSE results

\* A run seen through the channels fatalError, status and tableResults.
\* `ret` keeps the stages that ran their body.
InitFatal ==
    /\ RunInit
    /\ \A t \in Tables : source[t].pk
    /\ fn = "invoke"
    /\ args = NoCall
    /\ ret = <<>>

\* A node whose calls all succeed (with the configuration missing,
\* ensureDbSyncConfiguration throws in every node that runs its body)
NodeReturns ==
    /\ pc \in {"start", "discover", "snapshot", "plan", "execute", "finalize"}
    /\ \E handled \in OneTableResults :
        LET update == nodeUpdate(StageAt(pc), fatalError, tableResults, NullRecord)
        IN /\ envOk \/ ~update.ran
           /\ fatalError' = ReduceFatal(fatalError, update.fatalError)
           /\ status' = IF update.status # NULL THEN update.status ELSE status
           /\ tableResults' = ResultsAfter(StageAt(pc), update.ran, tableResults,
                                           handled)
           /\ ret' = IF update.ran THEN Append(ret, StageAt(pc)) ELSE ret
    /\ stages' = Append(stages, StageAt(pc))
    /\ pc' = PositionAfter(pc)
    /\ UNCHANGED <<runId, tableInfos, tableSnapshots, tablePlans,
                   catalogByTable, summary, worldVarsButStages, fn, args, poolVars>>

\* A node one of whose calls fails inside its try block: a short-circuited
\* node makes no call.  A failure in the try block of executeTablePlans
\* comes before the handler.
NodeCatches ==
    /\ pc \in {"start", "discover", "snapshot", "plan", "execute", "finalize"}
    /\ pc = "execute" => envOk
    /\ \E message \in (IF envOk THEN StageMessages(StageAt(pc)) ELSE {ErrEnv}) :
        LET update == nodeUpdate(StageAt(pc), fatalError, tableResults,
                                 [message |-> message])
        IN /\ update.ran
           /\ fatalError' = ReduceFatal(fatalError, update.fatalError)
           /\ status' = IF update.status # NULL THEN update.status ELSE status
           /\ tableResults' = ResultsAfter(StageAt(pc), FALSE, tableResults, <<>>)
           /\ ret' = Append(ret, StageAt(pc))
    /\ stages' = Append(stages, StageAt(pc))
    /\ pc' = PositionAfter(pc)
    /\ UNCHANGED <<runId, tableInfos, tableSnapshots, tablePlans,
                   catalogByTable, summary, worldVarsButStages, fn, args, poolVars>>

\* closePostgresPool rejects in the finally block of discover, snapshot or
\* execute, or ensureDbSyncConfiguration throws outside the try block of
\* execute: the exception leaves the graph and the node's update is lost
NodeThrows ==
    /\ pc \in {"discover", "snapshot", "execute"}
    /\ ~Truthy(fatalError)
    /\ stages' = Append(stages, StageAt(pc))
    /\ ret' = Append(ret, StageAt(pc))
    /\ pc' = "aborted"
    /\ UNCHANGED <<runId, fatalError, status, tableInfos, tableSnapshots,
                   tablePlans, tableResults, catalogByTable, summary,
                   worldVarsButStages, fn, args, poolVars>>

\* The graph is invoked again: the channels start from their defaults
InvokeAgain ==
    /\ pc \in {"done", "aborted"}
    /\ runId < MaxRuns
    /\ pc' = "start"
    /\ runId' = runId + 1
    /\ fatalError' = NULL
    /\ status' = "running"
    /\ tableResults' = <<>>
    /\ envOk' \in BOOLEAN
    /\ stages' = <<>>
    /\ ret' = <<>>
    /\ UNCHANGED <<tableInfos, tableSnapshots, tablePlans, catalogByTable,
                   summary, source, catalogStore, runStore, index, io,
                   catalogBefore, fn, args, poolVars>>

NextFatal == NodeReturns \/ NodeCatches \/ NodeThrows \/ InvokeAgain

SpecFatal == InitFatal /\ [][NextFatal]_vars

\* C32: once a stage has set fatalError to a message, no later stage clears
\* it or replaces it with another message: the final state carries the
\* first fatal error of the run.
C32_FatalErrorSticky ==
    [][(fatalError # NULL /\ runId' = runId) => fatalError' = fatalError]_vars

\* The same for the messages that are not empty
NonEmptyFatalErrorSticky ==
    [][(Truthy(fatalError) /\ runId' = runId) => fatalError' = fatalError]_vars

\* A failure with an empty message does not stop the later stages, and a
\* run without another failure ends with status success
EmptyMessageRunSucceeds ==
    /\ pc = "done"
    /\ fatalError = ""
    /\ status = "success"
    /\ tableResults # <<>>
    /\ ret = SixStages

----------------------------------------------------------------------------
(* Failures of the catalog writes of finalize *)

\* A putCatalogRecord of the current run has failed
CatalogWriteFailed == \E i \in CatalogWrites : ~io[i].ok

\* C33: when the write of one table's catalog record fails in finalize, the
\* catalog records of the other tables and the final run record are still
\* written, so the stored run record does not stay at status running while
\* the returned state says failed.
C33_FinalizeIsolatesWrites ==
    (pc = "done" /\ CatalogWriteFailed) =>
        /\ \A k \in 1..Len(tableSnapshots) :
              \E i \in CatalogWrites : io[i].table = tableSnapshots[k].table
        /\ \E i \in RunWrites : i > 1
        /\ ~(status = "failed" /\ runStore = RunningRecord(runId))

----------------------------------------------------------------------------
(* What a run with a fatal error leaves in the catalog *)

\* The fields of a stored catalog record that the planner of the next run
\* and the last success depend on
ProgressOf(record) ==
    IF record = NullRecord THEN NullRecord
    ELSE [schema_hash |-> record.schema_hash,
          table_hash |-> record.table_hash,
          last_success_run_id |-> record.last_success_run_id,
          last_success_at |-> record.last_success_at]

\* The fatal errors raised by the stages before finalize
EarlierStageErrors == {ErrEnv, ErrStart, ErrDiscover, ErrSnapshot, ErrPlan, ErrExecute}

\* C34: a run that ends with a fatal error raised by start, discover,
\* snapshot, plan or execute leaves the stored schema_hash, table_hash and
\* last_success_* of every table as they were before the run.
C34_FatalRunKeepsCatalog ==
    (pc = "done" /\ fatalError \in EarlierStageErrors) =>
        \A t \in Tables : ProgressOf(catalogStore[t]) = ProgressOf(catalogBefore[t])

\* The same for the stages that fail before any snapshot is recorded
FatalBeforePlanKeepsCatalog ==
    (pc = "done" /\ fatalError \in {ErrEnv, ErrStart, ErrDiscover, ErrSnapshot}) =>
        \A t \in Tables : ProgressOf(catalogStore[t]) = ProgressOf(catalogBefore[t])

----------------------------------------------------------------------------
(* The target index of a table whose reindex fails *)

\* An earlier run has indexed table t with success
IndexedBefore(t) ==
    /\ catalogBefore[t] # NullRecord
    /\ catalogBefore[t].last_success_run_id # NoRun
    /\ index[t] > 0

\* C35: when the full reindex of a table fails during a row fetch or an
\* upsert, the documents an earlier successful run indexed for the table
\* are still in its target index after the run.
C35_FailedReindexKeepsDocuments ==
    [][\A t \in Tables :
          (/\ pc = "execute"
           /\ IndexedBefore(t)
           /\ \E i \in (Len(io) + 1)..Len(io') :
                 /\ io'[i].table = t
                 /\ ~io'[i].ok
                 /\ io'[i].op \in {"fetchTableRows", "addDocuments"})
          => index'[t] >= index[t]]_vars

----------------------------------------------------------------------------
(* The terminal notifications of the scheduler *)

\* The calls of onTableComplete and of onTableError for table t
CompletionsOf(t) == {k \in 1..Len(completed) : completed[k].table = t}
ErrorsOf(t) == {k \in 1..Len(errored) : errored[k].table = t}

\* The tables given to processTablesInParallel
InputTables == {opts.tables[i].table : i \in 1..Len(opts.tables)}

\* No table has been notified more than once
AtMostOneNotification ==
    \A t \in InputTables :
        Cardinality(CompletionsOf(t)) + Cardinality(ErrorsOf(t)) <= 1

\* C36: in a scheduler run without worker crashes every input table gets
\* exactly one terminal notification, one onTableComplete or one
\* onTableError, whether it is processed whole or in chunks and however many
\* of its chunks fail: the notifications never exceed the tables and the
\* resolved results hold at most one entry per table.
C36_OneTerminalNotification ==
    NoCrash =>
        /\ AtMostOneNotification
        /\ Len(completed) + Len(errored) <= Len(opts.tables)
        /\ Settled =>
              \A t \in InputTables :
                  Cardinality(CompletionsOf(t)) + Cardinality(ErrorsOf(t)) = 1
        /\ promise.state = "resolved" =>
              \A j, k \in 1..Len(promise.value) :
                  promise.value[j].table = promise.value[k].table => j = k

\* The same for the tables processed whole
WholeTablesNotifiedOnce ==
    (NoCrash /\ WholeTablesOnly) =>
        /\ AtMostOneNotification
        /\ Settled =>
              \A t \in InputTables :
                  Cardinality(CompletionsOf(t)) + Cardinality(ErrorsOf(t)) = 1

----------------------------------------------------------------------------
(* Termination of the scheduler *)

\* Every message is handled and every worker thread takes its steps
FairPool == SpecPool /\ WF_vars(NextPool)

\* A request sent to a worker has not been answered, or an answer has not
\* been handled
ItemInFlight ==
    \E w \in Workers :
        \/ \E k \in 1..Len(toWorker[w]) : toWorker[w][k].type # "shutdown"
        \/ \E k \in 1..Len(toMain[w]) :
              toMain[w][k].type \in {"result", "chunk-result", "error"}

\* The promise is settled once, with the queue empty and nothing in flight
SettledOnceWhenDone ==
    (NoCrash /\ Settled) =>
        /\ promise.calls = 1
        /\ queue = <<>>
        /\ ~ItemInFlight

\* C37: for every non-empty table list, row counts, maxThreads,
\* tablesPerBatch, chunkSize and threshold, when every worker answers each
\* request and exits after shutdown, the promise of
\* processTablesInParallel is eventually settled, exactly once, and only
\* when the queue is empty and no item is in flight.
C37_SchedulerTerminates ==
    /\ <>(Settled \/ ~NoCrash)
    /\ []SettledOnceWhenDone

\* The same for the calls that spawn at least one worker
SchedulerWithWorkersTerminates ==
    /\ <>(Settled \/ ~NoCrash \/ Workers = {})
    /\ []SettledOnceWhenDone

\* A call whose queue is empty spawns no worker: nothing will settle the
\* promise
NoWorkerSpawned ==
    /\ Workers = {}
    /\ Len(opts.tables) > 0
    /\ promise.state = "pending"

----------------------------------------------------------------------------
(* Every queued item is sent once *)

\* The queue as buildQueue made it for the call
InitialQueue ==
    buildQueue(opts.tables, rowCountsOf(opts), opts.largeTableThreshold,
               opts.chunkSize).queue

\* The number of process and process-chunk requests that carried item
TimesSent(item) ==
    LET posts(w) == {k \in 1..Len(sent[w]) :
                        sent[w][k].type # "shutdown" /\ sent[w][k].item = item}
        RECURSIVE sum(_)
        sum(ws) == IF ws = {} THEN 0
                   ELSE LET w == CHOOSE v \in ws : TRUE
                        IN Cardinality(posts(w)) + sum(ws \ {w})
    IN sum(Workers)

\* Every worker thread is gone and every message of it has been handled
AllWorkersGone ==
    /\ Workers # {}
    /\ \A w \in Workers : worker[w] \in {"exited", "crashed"} /\ toMain[w] = <<>>

\* No item has been sent twice
NeverSentTwice ==
    \A k \in 1..Len(InitialQueue) : TimesSent(InitialQueue[k]) <= 1

\* C38: every item placed in the queue is sent to exactly one worker exactly
\* once under every interleaving of the messages of the workers, the items
\* left in the batch of a worker that crashes included.
C38_NoItemLostOrDuplicated ==
    /\ NeverSentTwice
    /\ AllWorkersGone =>
          \A k \in 1..Len(InitialQueue) : TimesSent(InitialQueue[k]) = 1

\* The same for the runs without a crash
NoItemLostWithoutCrash ==
    /\ NeverSentTwice
    /\ (AllWorkersGone /\ NoCrash) =>
          \A k \in 1..Len(InitialQueue) : TimesSent(InitialQueue[k]) = 1

----------------------------------------------------------------------------
(* A table processed in chunks and processed whole *)

\* Bounds of the chunked table
MaxChunkedRows == 6
MaxRowLimit == 3
MaxFetchBatch == 3

\* The fetchTableRows calls of fetchAndTransform, in order: the limit and
\* the offset asked for and the number of rows returned
RECURSIVE fetchBatches(_, _, _, _, _, _)
fetchBatches(n, batchSize, offset, fetched, limited, rowLimit) ==
    LET limit == IF limited THEN Min(batchSize, rowLimit - fetched) ELSE batchSize
        rows == RowsReturned(n, limit, offset)
        call == [limit |-> limit, offset |-> offset, returned |-> rows]
    IN IF limit <= 0 THEN <<>>
       ELSE IF rows = 0 THEN <<call>>
       ELSE IF limited /\ fetched + rows >= rowLimit THEN <<call>>
       ELSE <<call>> \o fetchBatches(n, batchSize, offset + rows, fetched + rows,
                                     limited, rowLimit)

\* The table of the call
ChunkedTable == [schema |-> SourceSchema, table |-> "users"]

\* A table of `rows` rows, its count known, is split by buildQueue
InitChunks ==
    /\ RunIdle
    /\ fn = "none"
    /\ args \in [rows : 0..MaxChunkedRows, chunkSize : 1..MaxRowLimit,
                 batchSize : 1..MaxFetchBatch]
    /\ ret = NoCall

\* buildQueue with threshold 0, then processChunk for every chunk, and
\* processTable for the same table
CallProcessChunks ==
    /\ fn = "none"
    /\ fn' = "processChunk"
    /\ LET key == tableKey(ChunkedTable.schema, ChunkedTable.table)
           built == buildQueue(<<ChunkedTable>>, [k \in {key} |-> args.rows], 0,
                               args.chunkSize)
           items == built.queue
       IN ret' = [items |-> items,
                  totalChunks |-> built.chunkCounts[key],
                  chunks |-> [i \in 1..Len(items) |->
                                 processChunk(items[i], args.rows, args.batchSize)],
                  batches |-> [i \in 1..Len(items) |->
                                  fetchBatches(args.rows, args.batchSize,
                                               items[i].offsetStart, 0, TRUE,
                                               items[i].rowLimit)],
                  whole |-> processTable(ChunkedTable, args.rows, args.batchSize)]
    /\ UNCHANGED <<args, runVars>>

SpecChunks == InitChunks /\ [][CallProcessChunks]_vars

\* The sum of the field rowCount or returned of the first k records
RECURSIVE SumRows(_, _)
SumRows(chunks, k) ==
    IF k = 0 THEN 0 ELSE chunks[k].rowCount + SumRows(chunks, k - 1)

RECURSIVE SumReturned(_, _)
SumReturned(calls, k) ==
    IF k = 0 THEN 0 ELSE calls[k].returned + SumReturned(calls, k - 1)

\* Row number r is in the range of the chunk
InChunk(item, r) == item.offsetStart <= r /\ r < item.offsetStart + item.rowLimit

\* C39: the row ranges of a table's chunks are pairwise disjoint and cover
\* [0, rowCount); a worker fetches a chunk in batches of at most batchSize,
\* never more than rowLimit rows in total, and stops at the first empty
\* batch; so for an unchanging table of N rows the aggregated rowCount of
\* the chunked table is N, as when the table is processed whole.
C39_ChunkCoverage ==
    fn = "processChunk" =>
        LET items == ret.items
        IN /\ Len(items) = ret.totalChunks
           /\ \A r \in 0..(args.rows - 1) :
                 Cardinality({i \in 1..Len(items) : InChunk(items[i], r)}) = 1
           /\ \A i, j \in 1..Len(items) : \A r \in 0..(MaxChunkedRows + MaxRowLimit) :
                 (InChunk(items[i], r) /\ InChunk(items[j], r)) => i = j
           /\ \A i \in 1..Len(items) :
                 LET calls == ret.batches[i]
                 IN /\ \A k \in 1..Len(calls) :
                          /\ calls[k].limit <= args.batchSize
                          /\ calls[k].offset
                               = items[i].offsetStart + SumReturned(calls, k - 1)
                          /\ calls[k].returned = 0 => k = Len(calls)
                    /\ SumReturned(calls, Len(calls)) <= items[i].rowLimit
                    /\ ret.chunks[i].rowCount = SumReturned(calls, Len(calls))
                    /\ ret.chunks[i].rowCount <= items[i].rowLimit
           /\ SumRows(ret.chunks, Len(items)) = args.rows
           /\ ret.whole.rowCount = args.rows

\* Five rows in chunks of three, fetched in batches of two: the second
\* batch of the first chunk asks for one row, the second chunk ends short
C39_Witness ==
    /\ fn = "processChunk"
    /\ args = [rows |-> 5, chunkSize |-> 3, batchSize |-> 2]
    /\ Len(ret.items) = 2
    /\ ret.batches[1] = <<[limit |-> 2, offset |-> 0, returned |-> 2],
                          [limit |-> 1, offset |-> 2, returned |-> 1]>>
    /\ ret.chunks[2].rowCount = 2

----------------------------------------------------------------------------
(* progress_file.ts: ProgressFileWriter *)

\* The bound of the tables reported to the writer
MaxProgressTables == 3

\* No write is in flight
NoWrite == [status |-> "none", tables |-> <<>>, errors |-> 0]

\* Two writeFile calls on the same path overlapped: the content is not
\* defined
Garbled == [status |-> "garbled", tables |-> <<>>, errors |-> 0]

\* writeToFile(status): the data is built from this.tables and
\* this.errorCount before writeFile is awaited
ProgressData(writer, fileStatus) ==
    [status |-> fileStatus, tables |-> writer.tables, errors |-> writer.errorCount]

\* The writer after `await initialize()`: the file holds the empty
\* in-progress structure.  `pending` counts the links of writeQueue whose
\* writeToFile has not started, `queued` is the data of the link that is
\* writing, `final` the data finalize() is writing, `finalize` its promise.
InitialWriter ==
    [tables |-> <<>>, errorCount |-> 0, pending |-> 0, queued |-> NoWrite,
     final |-> NoWrite, finalize |-> "not called",
     file |-> [status |-> "in_progress", tables |-> <<>>, errors |-> 0],
     overlap |-> FALSE]

\* this.tables.push(entry); this.enqueueWrite()
addTable(writer, entry) ==
    [writer EXCEPT !.tables = Append(@, entry),
                   !.errorCount = IF entry = "error" THEN @ + 1 ELSE @,
                   !.pending = @ + 1]

\* enqueueWrite's .then(() => this.writeToFile()): up to the await
startQueuedWrite(writer) ==
    [writer EXCEPT !.pending = @ - 1,
                   !.queued = ProgressData(writer, "in_progress"),
                   !.overlap = @ \/ writer.final # NoWrite]

\* finalize(): await this.writeToFile("completed"), up to the await
startFinalize(writer) ==
    [writer EXCEPT !.final = ProgressData(writer, "completed"),
                   !.finalize = "pending",
                   !.overlap = @ \/ writer.queued # NoWrite]

\* What a writeFile that has ended leaves in the file
FileAfter(writer, data, ok) ==
    IF ~ok THEN {writer.file}
    ELSE IF writer.overlap THEN {data, Garbled}
    ELSE {data}

InitProgress ==
    /\ RunIdle
    /\ fn = "ProgressFileWriter"
    /\ args = [totalTables |-> MaxProgressTables]
    /\ ret = InitialWriter

\* onTableComplete: progressWriter.addCompletedTable(result)
AddCompletedTable ==
    /\ fn = "ProgressFileWriter"
    /\ ret.finalize = "not called"
    /\ Len(ret.tables) < MaxProgressTables
    /\ ret' = addTable(ret, "completed")
    /\ UNCHANGED <<fn, args, runVars>>

\* onTableError: progressWriter.addErrorTable(schema, table, error)
AddErrorTable ==
    /\ fn = "ProgressFileWriter"
    /\ ret.finalize = "not called"
    /\ Len(ret.tables) < MaxProgressTables
    /\ ret' = addTable(ret, "error")
    /\ UNCHANGED <<fn, args, runVars>>

\* The next link of writeQueue runs: the link before it has settled
QueuedWriteStarts ==
    /\ fn = "ProgressFileWriter"
    /\ ret.pending > 0
    /\ ret.queued = NoWrite
    /\ ret' = startQueuedWrite(ret)
    /\ UNCHANGED <<fn, args, runVars>>

\* The writeFile of a link settles; a rejection is caught and logged
QueuedWriteEnds ==
    /\ fn = "ProgressFileWriter"
    /\ ret.queued # NoWrite
    /\ \E ok \in BOOLEAN : \E content \in FileAfter(ret, ret.queued, ok) :
          ret' = [ret EXCEPT !.queued = NoWrite, !.file = content,
                             !.overlap = @ /\ ret.final # NoWrite]
    /\ UNCHANGED <<fn, args, runVars>>

\* estimateCost: await progressWriter.finalize(), after
\* processTablesInParallel has resolved
FinalizeStarts ==
    /\ fn = "ProgressFileWriter"
    /\ ret.finalize = "not called"
    /\ ret' = startFinalize(ret)
    /\ UNCHANGED <<fn, args, runVars>>

\* The writeFile of finalize settles, and finalize with it
FinalizeEnds ==
    /\ fn = "ProgressFileWriter"
    /\ ret.finalize = "pending"
    /\ \E ok \in BOOLEAN : \E content \in FileAfter(ret, ret.final, ok) :
          ret' = [ret EXCEPT !.final = NoWrite, !.file = content,
                             !.overlap = @ /\ ret.queued # NoWrite,
                             !.finalize = IF ok THEN "resolved" ELSE "rejected"]
    /\ UNCHANGED <<fn, args, runVars>>

NextProgress ==
    \/ AddCompletedTable
    \/ AddErrorTable
    \/ QueuedWriteStarts
    \/ QueuedWriteEnds
    \/ FinalizeStarts
    \/ FinalizeEnds

SpecProgress == InitProgress /\ [][NextProgress]_vars

\* finalize() has resolved and every queued write has finished
AllWritesFinished ==
    /\ ret.finalize = "resolved"
    /\ ret.pending = 0
    /\ ret.queued = NoWrite

\* C40: once finalize() has resolved and all queued writes have finished,
\* the progress file has status completed and lists every table added: no
\* in-progress snapshot enqueued before finalize is the last write.
C40_FinalStateCompleted ==
    AllWritesFinished =>
        /\ ret.file.status = "completed"
        /\ ret.file.tables = ret.tables

\* finalize() resolved with no queued write outstanding when it was called
FinalizedWithEmptyQueue ==
    /\ AllWritesFinished
    /\ ret.file.status = "completed"
    /\ ret.file.tables = ret.tables
    /\ Len(ret.tables) = MaxProgressTables

============================================================================
